---- MODULE Spec2Model ----
(***************************************************************************)
(* A model of smutt/fediscripts: the executor of poke_instance.py          *)
(* (perform_test, perform_cat, perform_total), its retrying fetch_url, its *)
(* ping probes and the test pipeline of its script; the FediServer class   *)
(* of fediserver.py with its domain validation, write_consolidated and     *)
(* parse_consolidated; and merge_csv.py.                                   *)
(*                                                                         *)
(* Each part of the program has its own specification (SpecExec,           *)
(* SpecFetch, SpecDomain, SpecMerge, SpecServer, SpecRegistry, SpecPing,   *)
(* SpecMain); so have test_https, fetch_nodeinfo_attr and test_url of     *)
(* poke_instance.py, two consecutive stages of its pipeline, and the two  *)
(* modes of process_skarf.py (SpecHttps, SpecNinfo, SpecUrl, SpecStages,  *)
(* SpecSkarf, SpecDiff). The variables of the other parts stay at their   *)
(* idle values.                                                            *)
(***************************************************************************)
EXTENDS Integers, Sequences, FiniteSets, TLC

VARIABLES
  \* ---- executor (poke_instance.py perform_test / perform_cat / perform_total)
  op,            \* the executor that was called: "test", "cat" or "total"
  instances,     \* the list object the caller passed
  results,       \* the local list `results`
  slots,         \* ThreadPool.map: one result slot per submitted task
  started,       \* ThreadPool.map: number of tasks handed to workers (FIFO)
  running,       \* ThreadPool: indices of the tasks a worker is running
  probed,        \* history: what the probe returned for the host of each index
  thread_count,  \* the local `thread_count` (0: sequential mode)
  calls,         \* history: how often the probe was called on the host of each index
  overtaken,     \* history: a task returned while one of a lower index was running
  epc,           \* position in the executor
  ret            \* the executor's return value

execVars ==
  <<op, instances, results, slots, started, running, probed, thread_count,
    calls, overtaken, epc, ret>>

VARIABLES
  \* ---- fetch_url (poke_instance.py, det_lang.py)
  url,           \* the url argument: "good", or "unparsable" (urlparse raises)
  budget,        \* the retries argument of the outermost call
  retries,       \* the retries argument of the innermost call
  attempts,      \* history: the outcome of each urlopen, oldest first
  fpc,           \* "idle", "call" (a call of fetch_url is entered) or "done"
  outcome        \* how the outermost call ended

fetchVars == <<url, budget, retries, attempts, fpc, outcome>>

VARIABLES
  \* ---- FediServer construction (fediserver.py)
  raw,           \* the domain argument of FediServer(domain, ...)
  dpc,           \* "idle", "new" (before the call) or "built" (after it)
  server         \* what the construction ended in

domVars == <<raw, dpc, server>>

VARIABLES
  \* ---- merge_csv.py
  f0,            \* the dict parsed from the first input file (merged into)
  f1,            \* the dict parsed from the second input file
  parsed0,       \* history: f0 as parse_consolidated returned it
  todo,          \* the keys of f1 the loop of lines 31-34 has not visited
  not_in_f0,     \* the counter not_in_f0
  not_in_f1,     \* the counter not_in_f1
  outfile,       \* whether --output-file was given
  written,       \* the lines written to the output file
  mpc            \* position in the script

mergeVars == <<f0, f1, parsed0, todo, not_in_f0, not_in_f1, outfile, written, mpc>>

VARIABLES
  \* ---- one FediServer object (fediserver.py)
  ctor,          \* the arguments first_seen, last_seen, hits of the constructor
  host,          \* the attributes first_seen, last_seen, hits of the object
  spc            \* "idle", "new" (before the constructor) or "live" (after it)

srvVars == <<ctor, host, spc>>

VARIABLES
  \* ---- write_consolidated and parse_consolidated (fediserver.py)
  servers_dict,  \* the dict handed to write_consolidated
  content,       \* the text of the consolidated file
  src,           \* history: the kind of each line of a file that was not written
  lines,         \* parse_consolidated: `fh.read().split('\n')`
  ln,            \* parse_consolidated: the number of lines the loop has taken
  parsed,        \* parse_consolidated: the dict rv
  printed,       \* parse_consolidated: the error printed for each line, or "none"
  origin,        \* "written" (by write_consolidated), "given" (any text) or "none"
  rpc            \* "idle", "write", "open", "line", "parsed" or "raised"

regVars == <<servers_dict, content, src, lines, ln, parsed, printed, origin, rpc>>

VARIABLES
  \* ---- test_ping4 / test_ping6 / test_ping (poke_instance.py)
  ipver,         \* 4: test_ping4 is called, 6: test_ping6
  resolves,      \* how dns.resolver.resolve ends for the domain, per record type
  binary,        \* whether find_binary('ping') finds an executable ping
  ping_run,      \* how the ping subprocess would end
  events,        \* history: the queries made and the subprocesses started
  ppc,           \* "idle", "call", "binary", "run" or "done"
  pret           \* what the probe returned, or PyRaise

pingVars == <<ipver, resolves, binary, ping_run, events, ppc, pret>>

VARIABLES
  \* ---- the script of poke_instance.py, lines 679-778
  args,          \* the namespace argparse returned
  loaded,        \* the hosts parse_consolidated finds in the input file
  ipv6_support,  \* the local ipv6_support: None until line 737, then a bool
  hosts,         \* the script's list `instances`
  initial,       \* history: `instances` as lines 692-707 built it
  trace,         \* history: each perform_test call, its argument and its result
  output,        \* the result output: printed, dumped as JSON or written
  error,         \* the error message the run ended with, or "none"
  pc             \* position in the script

mainVars == <<args, loaded, ipv6_support, hosts, initial, trace, output, error, pc>>

VARIABLES
  \* ---- test_https (poke_instance.py)
  rel_idx,       \* the position of the loop in COMMON_URLS['https'], from 1
  fetched,       \* history: each path requested and how its urlopen ended
  hpc,           \* "idle", "loop" or "done"
  hret           \* what test_https returned

httpsVars == <<rel_idx, fetched, hpc, hret>>

VARIABLES
  \* ---- fetch_nodeinfo_attr (poke_instance.py)
  schemas,       \* how fetch_url ends for /.well-known/nodeinfo, with the body
  nodeinfo,      \* how fetch_url ends for the href of the last link
  attr,          \* the argument attr: a list of str and int keys
  active_stem,   \* the local active_stem (the href, before the second fetch)
  key_idx,       \* the number of keys of attr the loop has taken
  npc,           \* "idle", "call", "fetch", "walk" or "done"
  nret           \* what the call returned, or the exception it raised

ninfoVars == <<schemas, nodeinfo, attr, active_stem, key_idx, npc, nret>>

VARIABLES
  \* ---- test_url (poke_instance.py)
  content_type,  \* the argument content_type: None or a str
  url_retries,   \* the retries argument of the innermost call
  requests,      \* history: how each urlopen ended, oldest first
  upc,           \* "idle", "call" (a call of test_url is entered) or "done"
  uret           \* what the outermost call returned

urlVars == <<content_type, url_retries, requests, upc, uret>>

VARIABLES
  \* ---- consecutive perform_test stages of the script (poke_instance.py)
  heap,          \* the FediServer objects of the run: their attributes
  work,          \* the script's list `instances`: references to objects, or None
  stage,         \* the position in Pipeline of the perform_test call under way
  returned,      \* history: the list each finished call returned
  queue,         \* ThreadPool.map: the domains submitted, in order
  w_slots,       \* ThreadPool.map: one result slot per submitted task
  begun,         \* the number of probes of this call that were started
  w_running,     \* ThreadPool: indices of the tasks a worker is running
  w_threads,     \* the local thread_count (0: sequential mode)
  w_results,     \* the local list `results`
  wpc            \* position in perform_test, or "end", "raised", "abort"

stgVars ==
  <<heap, work, stage, returned, queue, w_slots, begun, w_running, w_threads,
    w_results, wpc>>

VARIABLES
  \* ---- process_skarf.py with one input file
  obs_kinds,     \* history: the kind of each line of the input file
  obs_lines,     \* parse_input: `fh.read().split('\n')`
  obs_n,         \* parse_input: the number of lines the loop has taken
  fedi_servers,  \* the dict parse_input builds and returns
  out_given,     \* whether --output-file was given
  out_file,      \* the output file before the run: missing, or its lines
  file_servers,  \* the dict parse_consolidated returned, updated in place
  file0,         \* history: file_servers as parse_consolidated returned it
  upd_n,         \* the number of items of fedi_servers the update has taken
  out_text,      \* the text write_consolidated wrote, or the servers printed
  kpc            \* "idle", "parse", "update", or how the script ended

skarfVars ==
  <<obs_kinds, obs_lines, obs_n, fedi_servers, out_given, out_file, file_servers,
    file0, upd_n, out_text, kpc>>

VARIABLES
  \* ---- process_skarf.py with two input files
  domains_1,     \* the sorted domains of the first input file
  domains_2,     \* the sorted domains of the second input file
  pos_1,         \* the position in domains_1 (from 0, as in the script)
  pos_2,         \* the position in domains_2
  ii_n,          \* the number of passes of the loop over ii that have begun
  diff_out,      \* the lines printed, oldest first
  dfpc           \* "idle", "loop", "done" or "raised" (IndexError)

diffVars == <<domains_1, domains_2, pos_1, pos_2, ii_n, diff_out, dfpc>>

\* the parts modelled after the script
laterVars == <<httpsVars, ninfoVars, urlVars, stgVars, skarfVars, diffVars>>

vars ==
  <<execVars, fetchVars, domVars, mergeVars, srvVars, regVars, pingVars, mainVars,
    laterVars>>

\* what the steps of one part leave alone
nonExecVars == <<fetchVars, domVars, mergeVars, srvVars, regVars, pingVars, mainVars, laterVars>>
nonFetchVars == <<execVars, domVars, mergeVars, srvVars, regVars, pingVars, mainVars, laterVars>>
nonDomVars == <<execVars, fetchVars, mergeVars, srvVars, regVars, pingVars, mainVars, laterVars>>
nonMergeVars == <<execVars, fetchVars, domVars, srvVars, regVars, pingVars, mainVars, laterVars>>
nonSrvVars == <<execVars, fetchVars, domVars, mergeVars, regVars, pingVars, mainVars, laterVars>>
nonRegVars == <<execVars, fetchVars, domVars, mergeVars, srvVars, pingVars, mainVars, laterVars>>
nonPingVars == <<execVars, fetchVars, domVars, mergeVars, srvVars, regVars, mainVars, laterVars>>
nonMainVars == <<execVars, fetchVars, domVars, mergeVars, srvVars, regVars, pingVars, laterVars>>

\* the parts modelled before test_https
earlierVars ==
  <<execVars, fetchVars, domVars, mergeVars, srvVars, regVars, pingVars, mainVars>>
nonHttpsVars == <<earlierVars, ninfoVars, urlVars, stgVars, skarfVars, diffVars>>
nonNinfoVars == <<earlierVars, httpsVars, urlVars, stgVars, skarfVars, diffVars>>
nonUrlVars == <<earlierVars, httpsVars, ninfoVars, stgVars, skarfVars, diffVars>>
nonStgVars == <<earlierVars, httpsVars, ninfoVars, urlVars, skarfVars, diffVars>>
nonSkarfVars == <<earlierVars, httpsVars, ninfoVars, urlVars, stgVars, diffVars>>
nonDiffVars == <<earlierVars, httpsVars, ninfoVars, urlVars, stgVars, skarfVars>>

-----------------------------------------------------------------------------
(* Bounds of the model *)

\* longest host list handed to an executor
MaxHosts == 4

\* largest retries argument of a fetch_url call
MaxBudget == 3

\* longest domain argument built from InputChars
MaxLen == 4

\* largest hit count of a record of an input registry
MaxHits == 2

\* latest timestamp of a record of an input registry
MaxTime == 2

-----------------------------------------------------------------------------
(* Program constants *)

MAX_THREADS == 1000
MIN_THREADS == 2

-----------------------------------------------------------------------------
(* Python values: a tag t and the payload of that type.  Strings are        *)
(* sequences of one-character strings.                                      *)

PyNone == [t |-> "none"]
PyBool(b) == [t |-> "bool", b |-> b]
PyInt(n) == [t |-> "int", n |-> n]
\* the float n.0
PyFloat(n) == [t |-> "float", f |-> n]
PyStr(cs) == [t |-> "str", s |-> cs]
\* a non-empty list or dict (a JSON array or object)
PyList == [t |-> "list"]
\* an instance of a class without __bool__ and __len__: a FediServer
PyObj(d) == [t |-> "obj", domain |-> d]

\* Python truth value testing (`if x`, `not x`)
Truthy(x) ==
  CASE x.t = "none" -> FALSE
    [] x.t = "bool" -> x.b
    [] x.t = "int" -> x.n # 0
    [] x.t = "float" -> x.f # 0
    [] x.t = "str" -> Len(x.s) > 0
    [] x.t = "list" -> TRUE
    [] x.t = "obj" -> TRUE

\* isinstance(x, int): bool is a subclass of int
IsInstanceInt(x) == x.t \in {"int", "bool"}

\* the integer an int (or bool) instance compares and adds as
IntValue(x) == IF x.t = "bool" THEN (IF x.b THEN 1 ELSE 0) ELSE x.n

Digits == <<"0", "1", "2", "3", "4", "5", "6", "7", "8", "9">>

IsDigit(c) == \E i \in 1..10 : Digits[i] = c

DigitVal(c) == (CHOOSE i \in 1..10 : Digits[i] = c) - 1

RECURSIVE DigitsVal(_)
DigitsVal(cs) ==
  IF cs = <<>> THEN 0
  ELSE 10 * DigitsVal(SubSeq(cs, 1, Len(cs) - 1)) + DigitVal(cs[Len(cs)])

\* int(s) of a str: an optional sign and at least one digit, else ValueError
IntParses(cs) ==
  LET body == IF cs # <<>> /\ cs[1] \in {"-", "+"} THEN Tail(cs) ELSE cs
  IN  body # <<>> /\ \A i \in 1..Len(body) : IsDigit(body[i])

IntOfStr(cs) ==
  IF cs[1] = "-" THEN 0 - DigitsVal(Tail(cs))
  ELSE IF cs[1] = "+" THEN DigitsVal(Tail(cs))
  ELSE DigitsVal(cs)

Max(a, b) == IF a > b THEN a ELSE b
Min(a, b) == IF a < b THEN a ELSE b

\* math.ceil(n / 2)
CeilHalf(n) == (n + 1) \div 2

-----------------------------------------------------------------------------
(* The executor: perform_test, perform_cat, perform_total *)

S_Other == <<"O", "t", "h", "e", "r">>
S_Total == <<"T", "o", "t", "a", "l">>
S_odd == <<"o", "d", "d">>
S_even == <<"e", "v", "e", "n">>

\* what a test function returns for one host (test_dns, test_https, ...)
TestValues == {PyBool(TRUE), PyBool(FALSE)}

\* what a cat function returns for one host: None or a string (cat_software
\* returns whatever string the host's nodeinfo document names, also '')
CatValues ==
  {PyNone, PyStr(<<>>), PyStr(S_Other), PyStr(S_Total), PyStr(S_odd), PyStr(S_even)}

\* what fetch_nodeinfo_attr returns for one host: None or any JSON value
TotalValues ==
  {PyNone, PyBool(TRUE), PyInt(0 - 1), PyInt(0), PyInt(2), PyFloat(2),
   PyStr(<<"3">>), PyStr(<<"-", "5">>), PyStr(<<"x">>), PyList}

ProbeValues(o) ==
  CASE o = "test" -> TestValues
    [] o = "cat" -> CatValues
    [] o = "total" -> TotalValues

\* the probe did not return: an exception left it (test_ping4 and test_ping6
\* evaluate `find_binary('ping') + ' -4'`, a TypeError when find_binary
\* returned None)
PyRaise == [t |-> "raise"]

\* how a call of the probe on one host can end
ProbeOutcomes(o) == ProbeValues(o) \cup {PyRaise}

\* a slot of ThreadPool.map whose task has not returned yet
Pending == [t |-> "pending"]

\* a pool sized by the half of the list rounded down
ThreadCountFloor(n) == Max(MIN_THREADS, Min(MAX_THREADS, n \div 2))

\* the thread_count of the pool branch
ThreadCount(n) == Max(MIN_THREADS, Min(MAX_THREADS, CeilHalf(n)))

\* `len(instances) < MIN_THREADS * 2`
Sequential(n) == n < MIN_THREADS * 2

\* a pool that hands the values back in the order the tasks complete
PoolStoreByCompletion(sl, i, v) ==
  [sl EXCEPT ![CHOOSE j \in 1..Len(sl) :
                 sl[j] = Pending /\ \A h \in 1..(j - 1) : sl[h] # Pending] = v]

\* ThreadPool.map stores the value of the task of index i in slot i
PoolStore(sl, i, v) == [sl EXCEPT ![i] = v]

\* perform_test, lines 140-142: `if not results[ii]: instances[ii] = None`
MarkFailed(ins, rs) ==
  [ii \in 1..Len(ins) |-> IF ~Truthy(rs[ii]) THEN PyNone ELSE ins[ii]]

\* perform_test, line 144: `[ins for ins in instances if ins]`
KeepTruthy(ins) == SelectSeq(ins, Truthy)

\* ---- an OrderedDict / dict: a sequence of entries in insertion order
HasKey(d, key) == \E i \in 1..Len(d) : d[i].k = key
KeyIndex(d, key) == CHOOSE i \in 1..Len(d) : d[i].k = key
Get(d, key) == d[KeyIndex(d, key)].v
\* d[key] = value: an existing key keeps its place
Put(d, key, value) ==
  IF HasKey(d, key) THEN [d EXCEPT ![KeyIndex(d, key)].v = value]
  ELSE Append(d, [k |-> key, v |-> value])
\* d.pop(key): the other keys keep their order
Pop(d, key) == SelectSeq(d, LAMBDA e : e.k # key)

\* a fold of None alone (`x is None`)
FoldNoneOnly(rs) ==
  [i \in 1..Len(rs) |-> IF rs[i] = PyNone THEN PyStr(S_Other) ELSE rs[i]]

\* perform_cat, line 201: `['Other' if not x else x for x in results]`
FoldOther(rs) ==
  [i \in 1..Len(rs) |-> IF ~Truthy(rs[i]) THEN PyStr(S_Other) ELSE rs[i]]

\* perform_cat, lines 203-210: count each category, after the first n results
RECURSIVE CountSums(_, _)
CountSums(rs, n) ==
  IF n = 0 THEN <<>>
  ELSE LET sums == CountSums(rs, n - 1)
           res == rs[n]
       IN  IF HasKey(sums, res) THEN Put(sums, res, Get(sums, res) + 1)
           ELSE Put(sums, res, 1)

\* a scan that lets a later category of equal count replace the largest
LargerOrEqual(value, than) == value >= than

\* the comparison of perform_cat, line 218: `value > sums[largest]`
Larger(value, than) == value > than

\* perform_cat, lines 216-219: the scan for the largest remaining category
RECURSIVE ScanLargest(_, _, _)
ScanLargest(sums, i, largest) ==
  IF i > Len(sums) THEN largest
  ELSE ScanLargest(sums, i + 1,
         IF Larger(sums[i].v, Get(sums, largest)) THEN sums[i].k ELSE largest)

Largest(sums) == ScanLargest(sums, 1, sums[1].k)

\* perform_cat, lines 215-220: n rounds of moving the largest category to rv
RECURSIVE SortSums(_, _, _)
SortSums(rv, sums, n) ==
  IF n = 0 THEN rv
  ELSE LET largest == Largest(sums)
       IN  SortSums(Put(rv, largest, Get(sums, largest)), Pop(sums, largest), n - 1)

\* perform_cat, lines 201-222, from the collected results to the return value
CatTally(rs) ==
  LET folded == FoldOther(rs)
      sums == CountSums(folded, Len(folded))
      total == Len(folded)
  IN  SortSums(<<[k |-> PyStr(S_Total), v |-> total]>>, sums, Len(sums))

\* perform_total, lines 166-177: the loop body for one result
AddResult(total, res) ==
  IF ~Truthy(res) THEN total
  ELSE LET afterInt ==
             IF IsInstanceInt(res) /\ IntValue(res) > 0
             THEN total + IntValue(res) ELSE total
       IN  IF res.t = "str"
           THEN IF ~IntParses(res.s) THEN afterInt
                ELSE IF IntOfStr(res.s) > 0 THEN afterInt + IntOfStr(res.s)
                ELSE afterInt
           ELSE afterInt

\* perform_total, lines 164-179, over the first n results
RECURSIVE SumResults(_, _)
SumResults(rs, n) ==
  IF n = 0 THEN 0 ELSE AddResult(SumResults(rs, n - 1), rs[n])

\* a check that takes every falsy result for a missing one
CountMismatchOrFalsy(o, ins, rs) ==
  \/ Len(ins) # Len(rs)
  \/ \E i \in 1..Len(rs) : ~Truthy(rs[i])

\* the defensive checks of lines 136, 160 and 197
CountMismatch(o, ins, rs) ==
  \/ Len(ins) # Len(rs)
  \/ o = "test" /\ \E i \in 1..Len(rs) : rs[i] = PyNone

\* the variables of the FediServer object while none is modelled
SrvIdle ==
  /\ ctor = <<>>
  /\ host = <<>>
  /\ spc = "idle"

\* the variables of the consolidated file while none is written or parsed
RegIdle ==
  /\ servers_dict = <<>>
  /\ content = <<>>
  /\ src = <<>>
  /\ lines = <<>>
  /\ ln = 0
  /\ parsed = <<>>
  /\ printed = <<>>
  /\ origin = "none"
  /\ rpc = "idle"

\* the variables of the ping probes while none is modelled
PingIdle ==
  /\ ipver = 0
  /\ resolves = <<>>
  /\ binary = FALSE
  /\ ping_run = "none"
  /\ events = <<>>
  /\ ppc = "idle"
  /\ pret = PyNone

\* the variables of the script while no run is modelled
MainIdle ==
  /\ args = <<>>
  /\ loaded = <<>>
  /\ ipv6_support = PyNone
  /\ hosts = <<>>
  /\ initial = <<>>
  /\ trace = <<>>
  /\ output = [kind |-> "none"]
  /\ error = "none"
  /\ pc = "idle"

\* the variables of test_https while no probe is modelled
HttpsIdle ==
  /\ rel_idx = 0
  /\ fetched = <<>>
  /\ hpc = "idle"
  /\ hret = PyNone

\* the variables of fetch_nodeinfo_attr while no call is modelled
NinfoIdle ==
  /\ schemas = [kind |-> "none"]
  /\ nodeinfo = [kind |-> "none"]
  /\ attr = <<>>
  /\ active_stem = PyNone
  /\ key_idx = 0
  /\ npc = "idle"
  /\ nret = PyNone

\* the variables of test_url while no call is modelled
UrlIdle ==
  /\ content_type = PyNone
  /\ url_retries = 0
  /\ requests = <<>>
  /\ upc = "idle"
  /\ uret = PyNone

\* the variables of the consecutive stages while none is modelled
StgIdle ==
  /\ heap = <<>>
  /\ work = <<>>
  /\ stage = 0
  /\ returned = <<>>
  /\ queue = <<>>
  /\ w_slots = <<>>
  /\ begun = 0
  /\ w_running = {}
  /\ w_threads = 0
  /\ w_results = <<>>
  /\ wpc = "idle"

\* the variables of process_skarf.py while no run is modelled
SkarfIdle ==
  /\ obs_kinds = <<>>
  /\ obs_lines = <<>>
  /\ obs_n = 0
  /\ fedi_servers = <<>>
  /\ out_given = FALSE
  /\ out_file = [kind |-> "none"]
  /\ file_servers = <<>>
  /\ file0 = <<>>
  /\ upd_n = 0
  /\ out_text = <<>>
  /\ kpc = "idle"

\* the variables of the two-file mode of process_skarf.py while no run is
\* modelled
DiffIdle ==
  /\ domains_1 = <<>>
  /\ domains_2 = <<>>
  /\ pos_1 = 0
  /\ pos_2 = 0
  /\ ii_n = 0
  /\ diff_out = <<>>
  /\ dfpc = "idle"

\* the variables of the parts modelled after the script
LaterIdle ==
  HttpsIdle /\ NinfoIdle /\ UrlIdle /\ StgIdle /\ SkarfIdle /\ DiffIdle

\* the variables of the parts added to the executor, fetch_url, the domain
\* validation and merge_csv.py
OthersIdle == SrvIdle /\ RegIdle /\ PingIdle /\ MainIdle /\ LaterIdle

\* the variables of merge_csv.py while no merge is modelled
MergeIdle ==
  /\ f0 = <<>>
  /\ f1 = <<>>
  /\ parsed0 = <<>>
  /\ todo = {}
  /\ not_in_f0 = 0
  /\ not_in_f1 = 0
  /\ outfile = FALSE
  /\ written = <<>>
  /\ mpc = "idle"

\* the variables of the FediServer construction while none is modelled
DomIdle ==
  /\ raw = <<>>
  /\ dpc = "idle"
  /\ server = [kind |-> "none"]

\* the variables of fetch_url while no fetch is modelled
FetchIdle ==
  /\ url = "none"
  /\ budget = 0
  /\ retries = 0
  /\ attempts = <<>>
  /\ fpc = "idle"
  /\ outcome = "none"

ExecInit ==
  /\ op \in {"test", "cat", "total"}
  /\ \E n \in 0..MaxHosts :
       /\ instances = [i \in 1..n |-> PyObj(i)]
       /\ probed = [i \in 1..n |-> Pending]
       /\ calls = [i \in 1..n |-> 0]
  /\ overtaken = FALSE
  /\ results = <<>>
  /\ slots = <<>>
  /\ started = 0
  /\ running = {}
  /\ thread_count = 0
  /\ epc = "call"
  /\ ret = PyNone
  /\ FetchIdle
  /\ DomIdle
  /\ MergeIdle
  /\ OthersIdle

\* lines 125-132 (149-156, 186-193): choose the mode, create the pool
Dispatch ==
  /\ epc = "call"
  /\ IF Sequential(Len(instances))
     THEN /\ epc' = IF Len(instances) = 0 THEN "check" ELSE "seq"
          /\ UNCHANGED <<thread_count, slots>>
     ELSE /\ thread_count' = ThreadCount(Len(instances))
          /\ slots' = [i \in 1..Len(instances) |-> Pending]
          /\ epc' = "pool"
  /\ UNCHANGED <<op, instances, results, started, running, probed, calls,
                 overtaken, ret>>
  /\ UNCHANGED nonExecVars

\* lines 127-128: one iteration of the sequential loop calls the probe on
\* instances[ii].domain and appends what it returns; an exception of the
\* probe is caught nowhere and leaves the executor
SeqCall ==
  /\ epc = "seq"
  /\ calls' = [calls EXCEPT ![Len(results) + 1] = @ + 1]
  /\ \E v \in ProbeOutcomes(op) :
       /\ probed' = [probed EXCEPT ![Len(results) + 1] = v]
       /\ IF v = PyRaise
          THEN epc' = "raised" /\ UNCHANGED results
          ELSE /\ results' = Append(results, v)
               /\ epc' = IF Len(results) + 1 = Len(instances) THEN "check" ELSE "seq"
  /\ UNCHANGED <<op, instances, slots, started, running, thread_count, overtaken, ret>>
  /\ UNCHANGED nonExecVars

\* ThreadPool.map: an idle worker takes the next task of the queue and calls
\* the probe on its domain
PoolTake ==
  /\ epc = "pool"
  /\ started < Len(instances)
  /\ Cardinality(running) < thread_count
  /\ started' = started + 1
  /\ running' = running \cup {started + 1}
  /\ calls' = [calls EXCEPT ![started + 1] = @ + 1]
  /\ UNCHANGED <<op, instances, results, slots, probed, thread_count, overtaken,
                 epc, ret>>
  /\ UNCHANGED nonExecVars

\* ThreadPool.map: the probe of a running task ends, in any order; the pool
\* keeps what it returned, or the exception that left it, in the task's slot
PoolReturn ==
  /\ epc = "pool"
  /\ \E i \in running : \E v \in ProbeOutcomes(op) :
       /\ slots' = PoolStore(slots, i, v)
       /\ probed' = [probed EXCEPT ![i] = v]
       /\ running' = running \ {i}
       /\ overtaken' = (overtaken \/ \E j \in running : j < i)
  /\ UNCHANGED <<op, instances, results, started, thread_count, calls, epc, ret>>
  /\ UNCHANGED nonExecVars

\* line 133 (157, 194): once every task is done map returns the list of all
\* slots, or raises again the exception a task ended with
PoolJoin ==
  /\ epc = "pool"
  /\ started = Len(instances)
  /\ running = {}
  /\ IF \E i \in 1..Len(slots) : slots[i] = PyRaise
     THEN epc' = "raised" /\ UNCHANGED results
     ELSE results' = slots /\ epc' = "check"
  /\ UNCHANGED <<op, instances, slots, started, running, probed, thread_count,
                 calls, overtaken, ret>>
  /\ UNCHANGED nonExecVars

\* perform_test, lines 135-144
TestFinish ==
  /\ epc = "check"
  /\ op = "test"
  /\ IF CountMismatch(op, instances, results)
     THEN epc' = "abort" /\ UNCHANGED <<instances, ret>>
     ELSE /\ instances' = MarkFailed(instances, results)
          /\ ret' = KeepTruthy(instances')
          /\ epc' = "done"
  /\ UNCHANGED <<op, results, slots, started, running, probed, thread_count,
                 calls, overtaken>>
  /\ UNCHANGED nonExecVars

\* perform_cat, lines 196-222
CatFinish ==
  /\ epc = "check"
  /\ op = "cat"
  /\ IF CountMismatch(op, instances, results)
     THEN epc' = "abort" /\ UNCHANGED ret
     ELSE ret' = CatTally(results) /\ epc' = "done"
  /\ UNCHANGED <<op, instances, results, slots, started, running, probed,
                 thread_count, calls, overtaken>>
  /\ UNCHANGED nonExecVars

\* perform_total, lines 159-179
TotalFinish ==
  /\ epc = "check"
  /\ op = "total"
  /\ IF CountMismatch(op, instances, results)
     THEN epc' = "abort" /\ UNCHANGED ret
     ELSE ret' = PyInt(SumResults(results, Len(results))) /\ epc' = "done"
  /\ UNCHANGED <<op, instances, results, slots, started, running, probed,
                 thread_count, calls, overtaken>>
  /\ UNCHANGED nonExecVars

ExecNext ==
  \/ Dispatch
  \/ SeqCall
  \/ PoolTake
  \/ PoolReturn
  \/ PoolJoin
  \/ TestFinish
  \/ CatFinish
  \/ TotalFinish

SpecExec == ExecInit /\ [][ExecNext]_vars

\* the variables of the executor while no executor is modelled
ExecIdle ==
  /\ op = "none"
  /\ instances = <<>>
  /\ results = <<>>
  /\ slots = <<>>
  /\ started = 0
  /\ running = {}
  /\ probed = <<>>
  /\ thread_count = 0
  /\ calls = <<>>
  /\ overtaken = FALSE
  /\ epc = "idle"
  /\ ret = PyNone

-----------------------------------------------------------------------------
(* fetch_url *)

HTTPS_RETRIES == 3

\* What one urlopen(req) / page.read().decode() can end in:
\*   ok          a response with a UTF-8 body
\*   bad_utf8    a response whose body is not UTF-8 (UnicodeDecodeError)
\*   http        an HTTP error status (urllib.error.HTTPError), with its code
\*   url_timeout urllib.error.URLError whose reason is socket.timeout
\*               (the connect or the sending of the request timed out)
\*   url_error   any other urllib.error.URLError (getaddrinfo failure,
\*               connection refused or reset while connecting or sending)
\*   raw_timeout socket.timeout raised while the response is read:
\*               urllib wraps only the errors of the sending in URLError
\*   raw_reset   ConnectionResetError / http.client.RemoteDisconnected
\*               raised while the response is read
Resp(kind, code) == [kind |-> kind, code |-> code]

HttpCodes == {404, 500, 503}

Responses ==
  {Resp(k, 0) : k \in {"ok", "bad_utf8", "url_timeout", "url_error",
                       "raw_timeout", "raw_reset"}}
    \cup {Resp("http", c) : c \in HttpCodes}

\* an except chain that tests URLError before its subclass HTTPError
HandleURLErrorFirst(r) ==
  CASE r.kind = "ok" -> "return"
    [] r.kind \in {"http", "url_timeout", "url_error"} -> "retry"
    [] r.kind = "bad_utf8" -> "UnicodeError"
    [] OTHER -> "GenError"

\* fetch_url, lines 238-258: what the try statement does with the outcome
Handle(r) ==
  CASE r.kind = "ok" -> "return"
    [] r.kind = "http" -> "HTTPError"
    [] r.kind \in {"url_timeout", "url_error"} -> "retry"
    [] r.kind = "bad_utf8" -> "UnicodeError"
    [] OTHER -> "GenError"

FetchInit ==
  /\ url \in {"good", "unparsable"}
  /\ budget \in 0..MaxBudget
  /\ retries = budget
  /\ attempts = <<>>
  /\ fpc = "call"
  /\ outcome = "none"
  /\ ExecIdle
  /\ DomIdle
  /\ MergeIdle
  /\ OthersIdle

\* lines 228-229
FetchExhausted ==
  /\ fpc = "call"
  /\ retries = 0
  /\ fpc' = "done"
  /\ outcome' = "retries_exhausted"
  /\ UNCHANGED <<url, budget, retries, attempts>>
  /\ UNCHANGED nonFetchVars

\* lines 232-236
FetchBadURL ==
  /\ fpc = "call"
  /\ retries # 0
  /\ url = "unparsable"
  /\ fpc' = "done"
  /\ outcome' = "BadURL"
  /\ UNCHANGED <<url, budget, retries, attempts>>
  /\ UNCHANGED nonFetchVars

\* lines 238-258: one request; on URLError the function calls itself with
\* retries - 1 and the outcome of that call is the outcome of this one
FetchRequest ==
  /\ fpc = "call"
  /\ retries # 0
  /\ url = "good"
  /\ \E r \in Responses :
       /\ attempts' = Append(attempts, r)
       /\ IF Handle(r) = "retry"
          THEN retries' = retries - 1 /\ UNCHANGED <<fpc, outcome>>
          ELSE fpc' = "done" /\ outcome' = Handle(r) /\ UNCHANGED retries
  /\ UNCHANGED <<url, budget>>
  /\ UNCHANGED nonFetchVars

FetchNext ==
  \/ FetchExhausted
  \/ FetchBadURL
  \/ FetchRequest

SpecFetch == FetchInit /\ [][FetchNext]_vars

-----------------------------------------------------------------------------
(* FediServer: the validation of the domain *)

LowerCase ==
  <<"a", "b", "c", "d", "e", "f", "g", "h", "i", "j", "k", "l", "m",
    "n", "o", "p", "q", "r", "s", "t", "u", "v", "w", "x", "y", "z">>

UpperCase ==
  <<"A", "B", "C", "D", "E", "F", "G", "H", "I", "J", "K", "L", "M",
    "N", "O", "P", "Q", "R", "S", "T", "U", "V", "W", "X", "Y", "Z">>

Range(f) == {f[i] : i \in DOMAIN f}

\* FediServer.DOMAIN_CHARS
DOMAIN_CHARS == Range(LowerCase) \cup Range(UpperCase) \cup Range(Digits) \cup {"-", "."}

\* the longest label confirm_domain accepts
MaxLabel == 63

\* str.lower() of one character
LowerChar(c) ==
  IF c \in Range(UpperCase)
  THEN LowerCase[CHOOSE i \in 1..26 : UpperCase[i] = c]
  ELSE c

\* str.lower()
Lower(cs) == [i \in 1..Len(cs) |-> LowerChar(cs[i])]

WhiteSpace == {" "}

\* str.strip(): drop the whitespace at both ends
RECURSIVE Strip(_)
Strip(cs) ==
  IF cs = <<>> THEN cs
  ELSE IF cs[1] \in WhiteSpace THEN Strip(Tail(cs))
  ELSE IF cs[Len(cs)] \in WhiteSpace THEN Strip(SubSeq(cs, 1, Len(cs) - 1))
  ELSE cs

\* str.rstrip('.'): drop every trailing dot
RECURSIVE RStripDots(_)
RStripDots(cs) ==
  IF cs # <<>> /\ cs[Len(cs)] = "." THEN RStripDots(SubSeq(cs, 1, Len(cs) - 1))
  ELSE cs

\* str.split('.'): the tokens between the dots, empty ones included
RECURSIVE SplitDots(_)
SplitDots(cs) ==
  IF \A i \in 1..Len(cs) : cs[i] # "." THEN <<cs>>
  ELSE LET d == CHOOSE i \in 1..Len(cs) :
                  cs[i] = "." /\ \A h \in 1..(i - 1) : cs[h] # "."
       IN  <<SubSeq(cs, 1, d - 1)>> \o SplitDots(SubSeq(cs, d + 1, Len(cs)))

\* confirm_domain, lines 42-50: a token that raises ValueError
BadToken(tok) ==
  \/ Len(tok) = 0
  \/ Len(tok) > MaxLabel
  \/ tok[1] = "-"
  \/ tok[Len(tok)] = "-"

Raised(e) == [kind |-> e]
Returned(d) == [kind |-> "ok", domain |-> d]

\* FediServer.confirm_domain: the domain it returns or the exception it raises
confirm_domain(domain) ==
  IF \E i \in 1..Len(domain) : domain[i] \notin DOMAIN_CHARS
  THEN Raised("ValueError")
  ELSE LET stripped == RStripDots(domain)
       IN  IF stripped = <<>> THEN Raised("IndexError")
           ELSE IF stripped[1] = "." THEN Raised("ValueError")
           ELSE IF \E t \in 1..Len(SplitDots(stripped)) :
                     BadToken(SplitDots(stripped)[t])
                THEN Raised("ValueError")
           ELSE Returned(stripped)

\* FediServer.__init__, line 16
NewDomain(domain) == confirm_domain(Strip(Lower(domain)))

\* the characters the modelled arguments are made of
InputChars == {"a", "B", "1", "-", ".", "_", " "}

Rep(c, n) == [i \in 1..n |-> c]

\* arguments around the label limit
LongInputs ==
  { Rep("a", MaxLabel), Rep("a", MaxLabel + 1),
    Rep("a", MaxLabel) \o <<".">> \o Rep("B", MaxLabel),
    <<"a", ".">> \o Rep("b", MaxLabel + 1) }

ShortInputs == UNION {[1..n -> InputChars] : n \in 0..MaxLen}

DomInit ==
  /\ raw \in ShortInputs \cup LongInputs
  /\ dpc = "new"
  /\ server = [kind |-> "none"]
  /\ ExecIdle
  /\ FetchIdle
  /\ MergeIdle
  /\ OthersIdle

\* FediServer(domain, first_seen): lines 15-16
Construct ==
  /\ dpc = "new"
  /\ server' = NewDomain(raw)
  /\ dpc' = "built"
  /\ UNCHANGED raw
  /\ UNCHANGED nonDomVars

DomNext ==
  \/ Construct

SpecDomain == DomInit /\ [][DomNext]_vars

-----------------------------------------------------------------------------
(* merge_csv.py: the merge of two consolidated files *)

\* the domains of the modelled registries, in lexicographic order
DomainNames == <<"a.example", "b.example">>

\* a FediServer as parse_consolidated builds it from a line
Record(h, fs, ls) == [hits |-> h, first_seen |-> fs, last_seen |-> ls]

Records ==
  {Record(h, fs, ls) : h \in 1..MaxHits, fs \in 1..MaxTime, ls \in 1..MaxTime}

\* the records of a file the scripts wrote: first_seen is not after last_seen
WellFormed(r) == r.first_seen <= r.last_seen

\* the dicts parse_consolidated can return for such files
Registries ==
  UNION { [D -> {r \in Records : WellFormed(r)}] : D \in SUBSET Range(DomainNames) }

\* write_consolidated, lines 120-124: one line per server, sorted by domain
Lines(reg) ==
  LET keys == SelectSeq(DomainNames, LAMBDA d : d \in DOMAIN reg)
  IN  [i \in 1..Len(keys) |->
         [domain |-> keys[i], first_seen |-> reg[keys[i]].first_seen,
          last_seen |-> reg[keys[i]].last_seen, hits |-> reg[keys[i]].hits]]

\* f0[k] = v
SetItem(reg, key, value) ==
  [d \in DOMAIN reg \cup {key} |-> IF d = key THEN value ELSE reg[d]]

\* lines 23-26
MergeInit ==
  /\ f0 \in Registries
  /\ f1 \in Registries
  /\ parsed0 = f0
  /\ todo = {}
  /\ not_in_f0 = 0
  /\ not_in_f1 = 0
  /\ outfile \in BOOLEAN
  /\ written = <<>>
  /\ mpc = "count"
  /\ ExecIdle
  /\ FetchIdle
  /\ DomIdle
  /\ OthersIdle

\* lines 27-29: count the keys of f0 that f1 lacks
CountNotInF1 ==
  /\ mpc = "count"
  /\ not_in_f1' = Cardinality(DOMAIN f0 \ DOMAIN f1)
  /\ todo' = DOMAIN f1
  /\ mpc' = "merge"
  /\ UNCHANGED <<f0, f1, parsed0, not_in_f0, outfile, written>>
  /\ UNCHANGED nonMergeVars

\* lines 31-34: one iteration of the loop over f1
MergeKey ==
  /\ mpc = "merge"
  /\ \E k \in todo :
       /\ todo' = todo \ {k}
       /\ IF k \notin DOMAIN f0
          THEN /\ not_in_f0' = not_in_f0 + 1
               /\ f0' = SetItem(f0, k, f1[k])
          ELSE UNCHANGED <<not_in_f0, f0>>
  /\ UNCHANGED <<f1, parsed0, not_in_f1, outfile, written, mpc>>
  /\ UNCHANGED nonMergeVars

\* lines 36-42: print the counters, write f0 when an output file is given
MergeWrite ==
  /\ mpc = "merge"
  /\ todo = {}
  /\ written' = IF outfile THEN Lines(f0) ELSE written
  /\ mpc' = "end"
  /\ UNCHANGED <<f0, f1, parsed0, todo, not_in_f0, not_in_f1, outfile>>
  /\ UNCHANGED nonMergeVars

MergeNext ==
  \/ CountNotInF1
  \/ MergeKey
  \/ MergeWrite

SpecMerge == MergeInit /\ [][MergeNext]_vars

-----------------------------------------------------------------------------
(* FediServer: the timestamps and the hit count *)

\* int(x) of an int, or of a str that int() parses
PyToInt(x) == IF x.t = "str" THEN IntOfStr(x.s) ELSE IntValue(x)

\* the attributes hits, first_seen and last_seen of a FediServer
Attrs(h, fs, ls) == [hits |-> h, first_seen |-> fs, last_seen |-> ls]

\* a constructor that tests the number last_seen stands for
InitLastSeenAsNumber(first_seen, last_seen, hits) ==
  LET given == IF last_seen.t = "str"
               THEN last_seen.s # <<>> /\ IntOfStr(last_seen.s) # 0
               ELSE Truthy(last_seen)
  IN  Attrs(hits, PyToInt(first_seen),
            IF given THEN PyToInt(last_seen) ELSE PyToInt(first_seen))

\* FediServer.__init__, lines 17-22: `if last_seen:` tests the argument as it
\* was passed, a str or an int
FediServerInit(first_seen, last_seen, hits) ==
  Attrs(hits, PyToInt(first_seen),
        IF Truthy(last_seen) THEN PyToInt(last_seen) ELSE PyToInt(first_seen))

\* FediServer.push_hit, lines 54-59
push_hit(self, ts) ==
  [self EXCEPT !.hits = @ + 1,
               !.first_seen = IF @ > ts THEN ts ELSE @,
               !.last_seen = IF @ < ts THEN ts ELSE @]

\* FediServer.combine, lines 61-66
combine(self, hits, first_seen, last_seen) ==
  [self EXCEPT !.hits = @ + hits,
               !.first_seen = IF @ > first_seen THEN first_seen ELSE @,
               !.last_seen = IF @ < last_seen THEN last_seen ELSE @]

\* the hit count up to which the calls of one object are followed
MaxTotalHits == 2 * MaxHits + 1

\* FediServer(domain, first_seen, last_seen, hits) of a valid domain, about
\* to be called: last_seen is an int or left at its default None
SrvInit ==
  /\ ctor \in [first_seen : {PyInt(t) : t \in 0..MaxTime},
                last_seen : {PyNone} \cup {PyInt(t) : t \in 0..MaxTime},
                hits : 0..MaxHits]
  /\ host = <<>>
  /\ spc = "new"
  /\ ExecIdle
  /\ FetchIdle
  /\ DomIdle
  /\ MergeIdle
  /\ RegIdle
  /\ PingIdle
  /\ MainIdle
  /\ LaterIdle

\* lines 15-22
SrvConstruct ==
  /\ spc = "new"
  /\ host' = FediServerInit(ctor.first_seen, ctor.last_seen, ctor.hits)
  /\ spc' = "live"
  /\ UNCHANGED ctor
  /\ UNCHANGED nonSrvVars

\* a call of push_hit(ts)
SrvPushHit ==
  /\ spc = "live"
  /\ host.hits < MaxTotalHits
  /\ \E ts \in 0..MaxTime : host' = push_hit(host, ts)
  /\ UNCHANGED <<ctor, spc>>
  /\ UNCHANGED nonSrvVars

\* a call of combine(hits, first_seen, last_seen)
SrvCombine ==
  /\ spc = "live"
  /\ \E h \in 0..MaxHits : \E fs \in 0..MaxTime : \E ls \in 0..MaxTime :
       /\ host.hits + h <= MaxTotalHits
       /\ host' = combine(host, h, fs, ls)
  /\ UNCHANGED <<ctor, spc>>
  /\ UNCHANGED nonSrvVars

SrvNext ==
  \/ SrvConstruct
  \/ SrvPushHit
  \/ SrvCombine

SpecServer == SrvInit /\ [][SrvNext]_vars

-----------------------------------------------------------------------------
(* fediserver.py: write_consolidated and parse_consolidated *)

\* longest file that was not written by write_consolidated, in lines
MaxLines == 3

\* the characters of the modelled files in the order of their code points
CodePoints ==
  <<"\n", " ", "#", ",", "-", ".">> \o Digits \o UpperCase \o <<"_">> \o LowerCase

Ord(c) == CHOOSE i \in 1..Len(CodePoints) : CodePoints[i] = c

\* a < b for two str
RECURSIVE StrLess(_, _)
StrLess(a, b) ==
  IF b = <<>> THEN FALSE
  ELSE IF a = <<>> THEN TRUE
  ELSE IF a[1] # b[1] THEN Ord(a[1]) < Ord(b[1])
  ELSE StrLess(Tail(a), Tail(b))

\* the digits of str(n) for n >= 0
RECURSIVE DigitsOf(_)
DigitsOf(n) ==
  IF n < 10 THEN <<Digits[n + 1]>>
  ELSE DigitsOf(n \div 10) \o <<Digits[(n % 10) + 1]>>

\* str(n) of an int
StrOfInt(n) == IF n < 0 THEN <<"-">> \o DigitsOf(0 - n) ELSE DigitsOf(n)

\* str.split(sep) for a separator of one character: the tokens between the
\* separators, empty ones included
RECURSIVE Split(_, _)
Split(cs, sep) ==
  IF \A i \in 1..Len(cs) : cs[i] # sep THEN <<cs>>
  ELSE LET d == CHOOSE i \in 1..Len(cs) :
                  cs[i] = sep /\ \A h \in 1..(i - 1) : cs[h] # sep
       IN  <<SubSeq(cs, 1, d - 1)>> \o Split(SubSeq(cs, d + 1, Len(cs)), sep)

\* the concatenation of a list of str
RECURSIVE Concat(_)
Concat(ss) == IF ss = <<>> THEN <<>> ELSE Head(ss) \o Concat(Tail(ss))

\* list.sort(key=lambda x: x.domain): a stable sort, an element goes behind
\* the elements that do not compare greater
RECURSIVE SortByDomain(_)
SortByDomain(servers) ==
  IF servers = <<>> THEN <<>>
  ELSE LET sorted == SortByDomain(SubSeq(servers, 1, Len(servers) - 1))
           x == servers[Len(servers)]
           before == SelectSeq(sorted, LAMBDA y : ~StrLess(x.domain, y.domain))
           after == SelectSeq(sorted, LAMBDA y : StrLess(x.domain, y.domain))
       IN  before \o <<x>> \o after

\* line 122: "#domain,first_seen,last_seen,hits"
Header ==
  <<"#", "d", "o", "m", "a", "i", "n", ",",
    "f", "i", "r", "s", "t", "_", "s", "e", "e", "n", ",",
    "l", "a", "s", "t", "_", "s", "e", "e", "n", ",", "h", "i", "t", "s">>

\* line 124: the line of one server
ServerLine(sv) ==
  sv.domain \o <<",">> \o StrOfInt(sv.first_seen) \o <<",">>
    \o StrOfInt(sv.last_seen) \o <<",">> \o StrOfInt(sv.hits) \o <<"\n">>

\* write_consolidated, lines 119-124: the text of the file
Written(dict) ==
  LET servers == SortByDomain([i \in 1..Len(dict) |-> dict[i].v])
  IN  Header \o <<"\n">> \o Concat([i \in 1..Len(servers) |-> ServerLine(servers[i])])

\* a FediServer: its domain and its attributes
Server(domain, attrs) ==
  [domain |-> domain, hits |-> attrs.hits,
   first_seen |-> attrs.first_seen, last_seen |-> attrs.last_seen]

\* an except clause that catches ValueError alone
HandlerValueErrorOnly(e) ==
  CASE e = "none" -> "none"
    [] e = "ValueError" -> "Error: Bad domain"
    [] OTHER -> "uncaught"

\* lines 94-97: what is printed for the exception that left the try block
Handler(e) ==
  CASE e = "none" -> "none"
    [] e = "ValueError" -> "Error: Bad domain"
    [] OTHER -> "Error: Bad line in input-file"

\* lines 90-93: the dict after the try block, and the exception that left it
TryLine(dict, line) ==
  LET toks == Split(line, ",")
      key == Strip(toks[1])
  IN  IF Len(toks) < 3 THEN [rv |-> dict, exc |-> "IndexError"]
      ELSE IF NewDomain(key).kind # "ok" THEN [rv |-> dict, exc |-> NewDomain(key).kind]
      ELSE IF ~IntParses(Strip(toks[2])) THEN [rv |-> dict, exc |-> "ValueError"]
      ELSE IF Strip(toks[3]) # <<>> /\ ~IntParses(Strip(toks[3]))
           THEN [rv |-> dict, exc |-> "ValueError"]
      ELSE LET attrs == FediServerInit(PyStr(Strip(toks[2])), PyStr(Strip(toks[3])), 1)
               new == Server(NewDomain(key).domain, attrs)
               stored == Put(dict, key, new)
           IN  IF Len(toks) < 4 THEN [rv |-> stored, exc |-> "IndexError"]
               ELSE IF ~IntParses(Strip(toks[4])) THEN [rv |-> stored, exc |-> "ValueError"]
               ELSE [rv |-> Put(stored, key, [new EXCEPT !.hits = IntOfStr(Strip(toks[4]))]),
                     exc |-> "none"]

\* the hosts of the registries that are written
HostNames == {<<"b", ".", "c">>, <<"a", "-", "1", ".", "b">>}

\* the timestamps of their servers: 0, 1 and one of two digits
Stamps == {0, 1, 10 * MaxTime}

\* the attributes of their servers
AttrSet == {Attrs(h, fs, ls) : h \in 0..MaxHits, fs \in Stamps, ls \in Stamps}

\* the orders in which their domains were inserted
Orders ==
  ({<<>>} \cup {<<d>> : d \in HostNames} \cup {<<d, e>> : d \in HostNames, e \in HostNames})
    \ {<<d, d>> : d \in HostNames}

\* the registries that are written: dicts keyed by the domain of their server
WrittenRegistries ==
  UNION { {[i \in 1..Len(o) |-> [k |-> o[i], v |-> Server(o[i], a[i])]] :
             a \in [1..Len(o) -> AttrSet]} : o \in Orders }

\* the lines of the files that are not written by write_consolidated
LineKinds == {"a.b,1,2,3", "a.b,2,2,1", "b.c,0,0,0", "a_b,1,2,3", ".,1,2,3",
              "#b.c,1,2,3", "", "a.b,1,2,x", "b.c,4,5", "a.b,x,2,3", "b.c"}

LineText(kind) ==
  CASE kind = "a.b,1,2,3" -> <<"a", ".", "b", ",", "1", ",", "2", ",", "3">>
    [] kind = "a.b,2,2,1" -> <<"a", ".", "b", ",", "2", ",", "2", ",", "1">>
    [] kind = "b.c,0,0,0" -> <<"b", ".", "c", ",", "0", ",", "0", ",", "0">>
    [] kind = "a_b,1,2,3" -> <<"a", "_", "b", ",", "1", ",", "2", ",", "3">>
    [] kind = ".,1,2,3" -> <<".", ",", "1", ",", "2", ",", "3">>
    [] kind = "#b.c,1,2,3" -> <<"#", "b", ".", "c", ",", "1", ",", "2", ",", "3">>
    [] kind = "" -> <<>>
    [] kind = "a.b,1,2,x" -> <<"a", ".", "b", ",", "1", ",", "2", ",", "x">>
    [] kind = "b.c,4,5" -> <<"b", ".", "c", ",", "4", ",", "5">>
    [] kind = "a.b,x,2,3" -> <<"a", ".", "b", ",", "x", ",", "2", ",", "3">>
    [] kind = "b.c" -> <<"b", ".", "c">>

\* the text of a file of the given lines, each ended by a newline
GivenText(kinds) == Concat([i \in 1..Len(kinds) |-> LineText(kinds[i]) \o <<"\n">>])

\* a registry about to be written and read back, or a file about to be read
RegInit ==
  /\ \/ /\ origin = "written"
        /\ servers_dict \in WrittenRegistries
        /\ src = <<>>
        /\ content = <<>>
        /\ rpc = "write"
     \/ /\ origin = "given"
        /\ servers_dict = <<>>
        /\ src \in UNION {[1..n -> LineKinds] : n \in 0..MaxLines}
        /\ content = GivenText(src)
        /\ rpc = "open"
  /\ lines = <<>>
  /\ ln = 0
  /\ parsed = <<>>
  /\ printed = <<>>
  /\ ExecIdle
  /\ FetchIdle
  /\ DomIdle
  /\ MergeIdle
  /\ SrvIdle
  /\ PingIdle
  /\ MainIdle
  /\ LaterIdle

\* write_consolidated, lines 104-124: exit(1) when the file (or, for a new
\* file, its directory) is not writable, else the file is written
WriteConsolidated ==
  /\ rpc = "write"
  /\ \E writable \in BOOLEAN :
       IF writable
       THEN content' = Written(servers_dict) /\ rpc' = "open"
       ELSE rpc' = "exit" /\ UNCHANGED content
  /\ UNCHANGED <<servers_dict, src, lines, ln, parsed, printed, origin>>
  /\ UNCHANGED nonRegVars

\* parse_consolidated, lines 75-84: an empty dict for a path that does not
\* exist or is not readable, else the lines of the file
ParseOpen ==
  /\ rpc = "open"
  /\ \E readable \in (IF origin = "written" THEN {TRUE} ELSE BOOLEAN) :
       IF readable
       THEN lines' = Split(content, "\n") /\ rpc' = "line"
       ELSE rpc' = "parsed" /\ UNCHANGED lines
  /\ UNCHANGED <<servers_dict, content, src, ln, parsed, printed, origin>>
  /\ UNCHANGED nonRegVars

\* lines 84-97: one iteration of the loop over the lines
ParseLine ==
  /\ rpc = "line"
  /\ ln < Len(lines)
  /\ ln' = ln + 1
  /\ LET line == lines[ln + 1]
     IN  IF Len(line) = 0 \/ line[1] = "#"
         THEN /\ printed' = Append(printed, "none")
              /\ UNCHANGED <<parsed, rpc>>
         ELSE /\ parsed' = TryLine(parsed, line).rv
              /\ printed' = Append(printed, Handler(TryLine(parsed, line).exc))
              /\ rpc' = IF Handler(TryLine(parsed, line).exc) = "uncaught"
                        THEN "raised" ELSE "line"
  /\ UNCHANGED <<servers_dict, content, src, lines, origin>>
  /\ UNCHANGED nonRegVars

\* lines 99-100
ParseReturn ==
  /\ rpc = "line"
  /\ ln = Len(lines)
  /\ rpc' = "parsed"
  /\ UNCHANGED <<servers_dict, content, src, lines, ln, parsed, printed, origin>>
  /\ UNCHANGED nonRegVars

RegNext ==
  \/ WriteConsolidated
  \/ ParseOpen
  \/ ParseLine
  \/ ParseReturn

SpecRegistry == RegInit /\ [][RegNext]_vars

-----------------------------------------------------------------------------
(* poke_instance.py: test_ping4, test_ping6 and test_ping *)

\* how dns.resolver.resolve(name, dtype) can end: with an answer or with an
\* exception
DnsOutcomes == {"answer", "NXDOMAIN", "NoAnswer", "Timeout", "other"}

\* dns_query, lines 102-119: True for an answer, False for every exception
dns_query(resolved) == resolved = "answer"

\* wrappers that both query the A record
AddressTypeA(v) == "A"

\* lines 342 and 347: the record type the wrapper of IP version v queries
AddressType(v) == IF v = 4 THEN "A" ELSE "AAAA"

\* lines 343 and 348: the flag the wrapper appends to the binary
PingFlag(v) == IF v = 4 THEN "-4" ELSE "-6"

\* `sub in line`
Contains(line, sub) ==
  \E i \in 1..(Len(line) - Len(sub) + 1) : SubSeq(line, i, i + Len(sub) - 1) = sub

S_PacketLoss == <<"%", " ", "p", "a", "c", "k", "e", "t", " ", "l", "o", "s", "s">>

\* the statistics line of ping when replies came back, and when none did
S_Replied ==
  <<"3", " ", "r", "e", "c", "e", "i", "v", "e", "d", ",", " ", "0">> \o S_PacketLoss
S_AllLost ==
  <<"0", " ", "r", "e", "c", "e", "i", "v", "e", "d", ",", " ", "1", "0", "0">>
    \o S_PacketLoss

\* how subprocess.run(..., check=True) can end: with one of the exceptions
\* (CalledProcessError for a non-zero exit status) or with the stdout of a
\* ping that exited with status 0
PingRuns ==
  {[kind |-> k, stdout |-> <<>>] :
     k \in {"TimeoutExpired", "CalledProcessError", "OSError", "SubprocessError"}}
  \cup {[kind |-> "completed", stdout |-> out] :
          out \in {<<>>, S_Replied \o <<"\n">>, S_AllLost \o <<"\n">>}}

\* lines 381-382: `line.split('%')[0][:-3] == '100'`
LossIs100(line) ==
  LET field == Split(line, "%")[1]
  IN  SubSeq(field, 1, Len(field) - 3) = <<"1", "0", "0">>

\* test_ping, lines 358-384: what it returns for the way the subprocess ended
test_ping(run) ==
  IF run.kind # "completed" THEN FALSE
  ELSE IF run.stdout = <<>> THEN FALSE
  ELSE LET out == Split(run.stdout, "\n")
       IN  ~\E i \in 1..Len(out) : Contains(out[i], S_PacketLoss) /\ LossIs100(out[i])

\* test_ping4(domain) or test_ping6(domain) about to be called
PingInit ==
  /\ ipver \in {4, 6}
  /\ resolves \in [{"A", "AAAA"} -> DnsOutcomes]
  /\ binary \in BOOLEAN
  /\ ping_run \in PingRuns
  /\ events = <<>>
  /\ ppc = "call"
  /\ pret = PyNone
  /\ ExecIdle
  /\ FetchIdle
  /\ DomIdle
  /\ MergeIdle
  /\ SrvIdle
  /\ RegIdle
  /\ MainIdle
  /\ LaterIdle

\* lines 342 and 344 (347 and 349): the query of the address record
PingQuery ==
  /\ ppc = "call"
  /\ LET dtype == AddressType(ipver)
         ok == dns_query(resolves[dtype])
     IN  /\ events' = Append(events, [e |-> "dns_query", dtype |-> dtype, ok |-> ok])
         /\ IF ok
            THEN ppc' = "binary" /\ UNCHANGED pret
            ELSE ppc' = "done" /\ pret' = PyBool(FALSE)
  /\ UNCHANGED <<ipver, resolves, binary, ping_run>>
  /\ UNCHANGED nonPingVars

\* line 343 (348): `find_binary('ping') + ' -4'`, a TypeError when find_binary
\* returned None
PingFindBinary ==
  /\ ppc = "binary"
  /\ events' = Append(events, [e |-> "find_binary"])
  /\ IF binary
     THEN ppc' = "run" /\ UNCHANGED pret
     ELSE ppc' = "done" /\ pret' = PyRaise
  /\ UNCHANGED <<ipver, resolves, binary, ping_run>>
  /\ UNCHANGED nonPingVars

\* test_ping, lines 354-384: the subprocess is run and its end is judged
PingRun ==
  /\ ppc = "run"
  /\ events' = Append(events, [e |-> "subprocess", flag |-> PingFlag(ipver)])
  /\ pret' = PyBool(test_ping(ping_run))
  /\ ppc' = "done"
  /\ UNCHANGED <<ipver, resolves, binary, ping_run>>
  /\ UNCHANGED nonPingVars

PingNext ==
  \/ PingQuery
  \/ PingFindBinary
  \/ PingRun

SpecPing == PingInit /\ [][PingNext]_vars

-----------------------------------------------------------------------------
(* poke_instance.py: the script, lines 679-778 *)

\* the dest of the test options, in the order of lines 654-660
TestFlags == {"dns", "dnssec", "ping4", "ping6", "https", "ninfo", "ninfo2"}

\* the INSTANCE arguments: none, '', a valid domain, one with a character
\* outside DOMAIN_CHARS, and one without a label
InstanceArgs ==
  {PyNone, PyStr(<<>>), PyStr(<<"a", ".", "b">>), PyStr(<<"a", "_", "b">>), PyStr(<<".">>)}

\* the --min-hits arguments
MinHitsArgs == {PyNone, PyInt(0), PyInt(2), PyInt(3)}

\* a FediServer of the list `instances`
Instance(domain, hits) == [domain |-> domain, hits |-> hits]

\* what parse_consolidated returns for the input file: nothing (also for a
\* missing file), or two hosts in the order of the file
LoadedLists ==
  {<<>>, <<Instance(<<"b", ".", "c">>, 1), Instance(<<"a", ".", "b">>, 2)>>}

\* the namespaces argparse can return: INSTANCE and --input-file exclude each
\* other; with --all-tests the other test options only matter for --ping-ipv6
ArgSpace ==
  {[dns |-> "dns" \in T, dnssec |-> "dnssec" \in T, ping4 |-> "ping4" \in T,
    ping6 |-> "ping6" \in T, https |-> "https" \in T, ninfo |-> "ninfo" \in T,
    ninfo2 |-> "ninfo2" \in T, all |-> a, json |-> j, totals |-> t, outfile |-> o,
    minhits |-> m, instance |-> i, infile |-> f] :
     T \in SUBSET TestFlags, a \in BOOLEAN, j \in BOOLEAN, t \in BOOLEAN,
     o \in BOOLEAN, m \in MinHitsArgs, i \in InstanceArgs, f \in BOOLEAN}

\* a test of the pipeline that exits when it is only implied by --all-tests
Ipv6FatalWhenImplied(a) == a.ping6 \/ a.all

\* line 744: `if args.ping6:`
Ipv6Fatal(a) == a.ping6

\* a pipeline that runs the tests that were asked for by their own option
RequestedExplicitly(a, flag) == a[flag]

\* lines 721, 726, 731, 736, 753, 758, 763: `if args.<flag> or args.all:`
Requested(a, flag) == a[flag] \/ a.all

\* the subsequences of a list
RECURSIVE SubLists(_)
SubLists(l) ==
  IF l = <<>> THEN {<<>>}
  ELSE LET rest == SubLists(Tail(l))
       IN  rest \cup {<<Head(l)>> \o r : r \in rest}

\* how perform_test(test, instances) can end: it returns the hosts whose test
\* passed, in their order, or is left by the TypeError of a ping wrapper
StageEnds(flag, ins) ==
  {[ended |-> "returned", kept |-> k] : k \in SubLists(ins)}
  \cup (IF flag \in {"ping4", "ping6"} /\ ins # <<>>
        THEN {[ended |-> "raised", kept |-> <<>>]} ELSE {})

\* line 707: `[ins for ins in instances if ins.hits >= args.minhits]`
AtLeast(ins, minhits) == SelectSeq(ins, LAMBDA x : x.hits >= minhits)

\* the script after argparse
MainInit ==
  /\ args \in {a \in ArgSpace :
                 /\ ~(a.instance # PyNone /\ a.infile)
                 /\ a.all => (a.dns \/ a.dnssec \/ a.ping4 \/ a.https \/ a.ninfo \/ a.ninfo2) = FALSE}
  /\ loaded \in (IF args.infile THEN LoadedLists ELSE {<<>>})
  /\ ipv6_support = PyNone
  /\ hosts = <<>>
  /\ initial = <<>>
  /\ trace = <<>>
  /\ output = [kind |-> "none"]
  /\ error = "none"
  /\ pc = "input"
  /\ ExecIdle
  /\ FetchIdle
  /\ DomIdle
  /\ MergeIdle
  /\ SrvIdle
  /\ RegIdle
  /\ PingIdle
  /\ LaterIdle

\* lines 679-681
CheckInput ==
  /\ pc = "input"
  /\ IF ~Truthy(args.instance) /\ ~args.infile
     THEN error' = "No input specified" /\ pc' = "exit"
     ELSE pc' = "tests" /\ UNCHANGED error
  /\ UNCHANGED <<args, loaded, ipv6_support, hosts, initial, trace, output>>
  /\ UNCHANGED nonMainVars

\* lines 683-686
CheckTests ==
  /\ pc = "tests"
  /\ IF ~args.all /\ ~args.ping4 /\ ~args.ping6 /\ ~args.dnssec /\ ~args.ninfo
        /\ ~args.ninfo2 /\ ~args.https /\ ~args.dns
     THEN error' = "No tests requested, exiting" /\ pc' = "exit"
     ELSE pc' = "build" /\ UNCHANGED error
  /\ UNCHANGED <<args, loaded, ipv6_support, hosts, initial, trace, output>>
  /\ UNCHANGED nonMainVars

\* lines 692-707: the list of one INSTANCE, or of the hosts of the input file
Built ==
  IF Truthy(args.instance)
  THEN IF Truthy(args.minhits)
       THEN [error |-> "min-hits requires input-file", pc |-> "exit", list |-> <<>>]
       ELSE LET made == NewDomain(Strip(args.instance.s))
            IN  CASE made.kind = "ok" ->
                       [error |-> "none", pc |-> "dns", list |-> <<Instance(made.domain, 1)>>]
                  [] made.kind = "ValueError" ->
                       [error |-> "Invalid domain", pc |-> "exit", list |-> <<>>]
                  [] OTHER ->
                       [error |-> made.kind, pc |-> "crashed", list |-> <<>>]
  ELSE [error |-> "none", pc |-> "dns",
        list |-> IF Truthy(args.minhits) THEN AtLeast(loaded, args.minhits.n) ELSE loaded]

\* lines 688-711: --json and --totals override --output-file, the list is
\* built, an empty list ends the run
BuildList ==
  /\ pc = "build"
  /\ args' = [args EXCEPT !.outfile = IF args.json \/ args.totals THEN FALSE ELSE @]
  /\ IF Built.pc = "dns" /\ Len(Built.list) = 0
     THEN /\ error' = "Error: No instances for testing"
          /\ pc' = "exit"
          /\ UNCHANGED <<hosts, initial>>
     ELSE /\ error' = Built.error
          /\ pc' = Built.pc
          /\ hosts' = Built.list
          /\ initial' = Built.list
  /\ UNCHANGED <<loaded, ipv6_support, trace, output>>
  /\ UNCHANGED nonMainVars

\* `instances = perform_test(test_..., instances)`; an exception that leaves
\* perform_test ends the script
Perform(flag, next) ==
  \E end \in StageEnds(flag, hosts) :
    /\ trace' = Append(trace, [stage |-> flag, given |-> hosts,
                               kept |-> end.kept, ended |-> end.ended])
    /\ IF end.ended = "raised"
       THEN pc' = "crashed" /\ error' = "TypeError" /\ UNCHANGED hosts
       ELSE pc' = next /\ hosts' = end.kept /\ UNCHANGED error

\* one `if args.<flag> or args.all:` block of lines 721-766
Stage(flag, next) ==
  /\ IF Requested(args, flag)
     THEN Perform(flag, next)
     ELSE pc' = next /\ UNCHANGED <<hosts, trace, error>>
  /\ UNCHANGED <<args, loaded, ipv6_support, initial, output>>
  /\ UNCHANGED nonMainVars

\* lines 721-724
StageDns ==
  /\ pc = "dns"
  /\ Stage("dns", "dnssec")

\* lines 726-729
StageDnssec ==
  /\ pc = "dnssec"
  /\ Stage("dnssec", "ping4")

\* lines 731-734
StagePing4 ==
  /\ pc = "ping4"
  /\ Stage("ping4", "ping6")

\* lines 736-751: the UDP connect to IPV6_TEST_ADDY tells whether the local
\* host has IPv6; without it the test is skipped, or the run ends when
\* --ping-ipv6 was given
StagePing6 ==
  /\ pc = "ping6"
  /\ IF Requested(args, "ping6")
     THEN \E connected \in BOOLEAN :
            /\ ipv6_support' = PyBool(connected)
            /\ IF connected
               THEN Perform("ping6", "https")
               ELSE /\ UNCHANGED <<hosts, trace>>
                    /\ IF Ipv6Fatal(args)
                       THEN /\ pc' = "exit"
                            /\ error' = "Error: Local host does not support IPv6, and --ping-ipv6 requested"
                       ELSE pc' = "https" /\ UNCHANGED error
     ELSE pc' = "https" /\ UNCHANGED <<ipv6_support, hosts, trace, error>>
  /\ UNCHANGED <<args, loaded, initial, output>>
  /\ UNCHANGED nonMainVars

\* lines 753-756
StageHttps ==
  /\ pc = "https"
  /\ Stage("https", "ninfo")

\* lines 758-761
StageNinfo ==
  /\ pc = "ninfo"
  /\ Stage("ninfo", "ninfo2")

\* lines 763-766
StageNinfo2 ==
  /\ pc = "ninfo2"
  /\ Stage("ninfo2", "output")

\* lines 768-778: the surviving hosts are written to the output file (sorted
\* by domain; exit(1) in write_consolidated when it is not writable), dumped
\* as JSON or printed, unless --totals was given
Output ==
  /\ pc = "output"
  /\ IF ~args.totals
     THEN IF args.outfile
          THEN \E writable \in BOOLEAN :
                 IF writable
                 THEN /\ output' = [kind |-> "file", hosts |-> SortByDomain(hosts)]
                      /\ pc' = "end"
                      /\ UNCHANGED error
                 ELSE /\ error' = "Error: Output file not writable"
                      /\ pc' = "exit"
                      /\ UNCHANGED output
          ELSE /\ output' = [kind |-> IF args.json THEN "json" ELSE "print", hosts |-> hosts]
               /\ pc' = "end"
               /\ UNCHANGED error
     ELSE pc' = "end" /\ UNCHANGED <<output, error>>
  /\ UNCHANGED <<args, loaded, ipv6_support, hosts, initial, trace>>
  /\ UNCHANGED nonMainVars

MainNext ==
  \/ CheckInput
  \/ CheckTests
  \/ BuildList
  \/ StageDns
  \/ StageDnssec
  \/ StagePing4
  \/ StagePing6
  \/ StageHttps
  \/ StageNinfo
  \/ StageNinfo2
  \/ Output

SpecMain == MainInit /\ [][MainNext]_vars

-----------------------------------------------------------------------------
(* test_https *)

\* the variables of the parts modelled before test_https, while none runs
EarlierIdle ==
  /\ ExecIdle
  /\ FetchIdle
  /\ DomIdle
  /\ MergeIdle
  /\ SrvIdle
  /\ RegIdle
  /\ PingIdle
  /\ MainIdle

\* line 45: COMMON_URLS['https']
COMMON_URLS_https ==
  <<"robots.txt", "", "index.html", "index.htm", ".well-known/nodeinfo",
    ".well-known/x-nodeinfo2">>

\* the status codes urlopen raises HTTPError for: redirects it does not
\* follow (304), client errors and server errors
HttpsCodes == {304, 400, 404, 499, 500, 503}

\* What urlopen(req) can end in (the response is not read): a response, an
\* HTTPError with its code, a URLError, or another exception raised while
\* the status line is read or the URL is taken apart
HttpsResponses ==
  {Resp(k, 0) : k \in {"ok", "url_timeout", "url_error", "raw_timeout",
                       "raw_reset"}}
    \cup {Resp("http", c) : c \in HttpsCodes}

\* an except clause that goes on to the next path for every HTTPError
HttpsStepAnyHttpError(r) ==
  CASE r.kind = "ok" -> "True"
    [] r.kind = "http" -> "continue"
    [] OTHER -> "False"

\* lines 478-498: what one pass of the loop does with the outcome
HttpsStep(r) ==
  CASE r.kind = "ok" -> "True"
    [] r.kind = "http" ->
         IF r.code >= 400 /\ r.code < 500 THEN "continue" ELSE "False"
    [] r.kind \in {"url_timeout", "url_error"} -> "False"
    [] OTHER -> "False"

HttpsInit ==
  /\ rel_idx = 1
  /\ fetched = <<>>
  /\ hpc = "loop"
  /\ hret = PyNone
  /\ EarlierIdle
  /\ NinfoIdle
  /\ UrlIdle
  /\ StgIdle
  /\ SkarfIdle
  /\ DiffIdle

\* lines 475-498: one pass of the loop
HttpsRequest ==
  /\ hpc = "loop"
  /\ rel_idx <= Len(COMMON_URLS_https)
  /\ \E r \in HttpsResponses :
       /\ fetched' = Append(fetched, [rel |-> COMMON_URLS_https[rel_idx], r |-> r])
       /\ IF HttpsStep(r) = "continue"
          THEN rel_idx' = rel_idx + 1 /\ UNCHANGED <<hpc, hret>>
          ELSE /\ hpc' = "done"
               /\ hret' = PyBool(HttpsStep(r) = "True")
               /\ UNCHANGED rel_idx
  /\ UNCHANGED nonHttpsVars

\* lines 500-501: the list is exhausted
HttpsDefault ==
  /\ hpc = "loop"
  /\ rel_idx > Len(COMMON_URLS_https)
  /\ hpc' = "done"
  /\ hret' = PyBool(TRUE)
  /\ UNCHANGED <<rel_idx, fetched>>
  /\ UNCHANGED nonHttpsVars

HttpsNext ==
  \/ HttpsRequest
  \/ HttpsDefault

SpecHttps == HttpsInit /\ [][HttpsNext]_vars

-----------------------------------------------------------------------------
(* fetch_nodeinfo_attr *)

\* ---- what json.loads returns: None, bool, int and str as above, and
\* a JSON array (a list)
JArray(items) == [t |-> "array", items |-> items]
\* a JSON object (a dict whose keys are str); d is a sequence of entries
JObject(d) == [t |-> "object", d |-> d]
\* the entry key: value of a JSON object
KV(key, value) == [k |-> key, v |-> value]

\* an exception that leaves the function
Raises(e) == [t |-> "raise", e |-> e]

S_links == <<"l", "i", "n", "k", "s">>
S_href == <<"h", "r", "e", "f">>
S_usage == <<"u", "s", "a", "g", "e">>
S_users == <<"u", "s", "e", "r", "s">>
\* the text of a URL
S_url == <<"h", "t", "t", "p", "s", ":", "/", "/", "a", ".", "b", "/", "n">>

\* the types with __contains__ and __len__
IsContainer(x) == x.t \in {"object", "array", "str"}

\* `key in x` for a str key and a container x: a key of the dict, an item
\* of the list, a substring of the str
In(key, x) ==
  CASE x.t = "object" -> HasKey(x.d, key)
    [] x.t = "array" -> \E i \in 1..Len(x.items) : x.items[i] = PyStr(key)
    [] x.t = "str" -> Contains(x.s, key)

\* len(x) of a container
LenOf(x) ==
  CASE x.t = "object" -> Len(x.d)
    [] x.t = "array" -> Len(x.items)
    [] x.t = "str" -> Len(x.s)

\* x[key] for a str key
SubscriptStr(x, key) ==
  CASE x.t = "object" -> IF HasKey(x.d, key) THEN Get(x.d, key) ELSE Raises("KeyError")
    [] OTHER -> Raises("TypeError")

\* x[n] for an int n: a sequence counts a negative n from its end
SubscriptInt(x, n) ==
  CASE x.t \in {"array", "str"} ->
         LET len == LenOf(x)
             pos == IF n < 0 THEN len + n + 1 ELSE n + 1
         IN  IF pos < 1 \/ pos > len THEN Raises("IndexError")
             ELSE IF x.t = "array" THEN x.items[pos] ELSE PyStr(<<x.s[pos]>>)
    [] x.t = "object" -> Raises("KeyError")
    [] OTHER -> Raises("TypeError")

\* what a stretch of the function ends in: it goes on with a value, or
\* the function is left with a return value or an exception
Go(stem) == [go |-> TRUE, stem |-> stem]
Leave(v) == [go |-> FALSE, ret |-> v]

\* lines 277-280 and 308: j_schemas['links'][-1]['href'], or the None the
\* function returns when one of the four tests fails, or the exception a
\* test or a subscript raises
HrefOf(j_schemas) ==
  IF ~IsContainer(j_schemas) THEN Leave(Raises("TypeError"))
  ELSE IF ~In(S_links, j_schemas) THEN Leave(PyNone)
  ELSE LET links == SubscriptStr(j_schemas, S_links) IN
       IF links.t = "raise" THEN Leave(links)
       ELSE IF links.t # "array" THEN Leave(PyNone)
       ELSE IF ~(LenOf(links) > 0) THEN Leave(PyNone)
       ELSE LET last == SubscriptInt(links, -1) IN
            IF ~IsContainer(last) THEN Leave(Raises("TypeError"))
            ELSE IF ~In(S_href, last) THEN Leave(PyNone)
            ELSE LET href == SubscriptStr(last, S_href) IN
                 IF href.t = "raise" THEN Leave(href) ELSE Go(href)

\* lines 295-306: one pass of the loop over attr.  The pass goes on with a
\* new active_stem, returns None, or raises.
KeyStep(stem, key) ==
  IF IsInstanceInt(key)
  THEN IF ~IsContainer(stem) THEN Leave(Raises("TypeError"))
       ELSE IF LenOf(stem) > IntValue(key)
            THEN LET v == SubscriptInt(stem, IntValue(key)) IN
                 IF v.t = "raise" THEN Leave(v) ELSE Go(v)
            ELSE Leave(PyNone)
  ELSE IF ~IsContainer(stem) THEN Leave(Raises("TypeError"))
       ELSE IF In(key.s, stem)
            THEN LET v == SubscriptStr(stem, key.s) IN
                 IF v.t = "raise" THEN Leave(v) ELSE Go(v)
            ELSE Leave(PyNone)

\* ---- how a call of fetch_url ends for the caller: RuntimeError, or a
\* body that json.loads rejects (JSONDecodeError) or turns into a value
FetchFails == [kind |-> "RuntimeError"]
NotJson == [kind |-> "text"]
Json(v) == [kind |-> "json", value |-> v]

\* an entry of `links` with a usable href
GoodLink == JObject(<<KV(<<"r", "e", "l">>, PyStr(<<"s">>)), KV(S_href, PyStr(S_url))>>)

WithLinks(links) == JObject(<<KV(S_links, links)>>)

\* the root documents of the model
SchemasValues ==
  { PyInt(5), PyNone, PyBool(TRUE), PyStr(S_links), PyStr(<<"x">>),
    JArray(<<>>), JArray(<<PyStr(S_links)>>), JObject(<<>>),
    WithLinks(PyInt(5)), WithLinks(JObject(<<>>)), WithLinks(JArray(<<>>)),
    WithLinks(JArray(<<PyInt(5)>>)), WithLinks(JArray(<<PyStr(<<"x">>)>>)),
    WithLinks(JArray(<<PyStr(S_href)>>)), WithLinks(JArray(<<JObject(<<>>)>>)),
    WithLinks(JArray(<<JObject(<<KV(S_href, PyInt(5))>>)>>)),
    WithLinks(JArray(<<JObject(<<KV(S_href, PyNone)>>)>>)),
    WithLinks(JArray(<<GoodLink>>)),
    WithLinks(JArray(<<JObject(<<>>), GoodLink>>)),
    WithLinks(JArray(<<GoodLink, JObject(<<>>)>>)) }

Usage(v) == JObject(<<KV(S_usage, v)>>)

\* the nodeinfo documents of the model
NodeinfoValues ==
  { JObject(<<>>), Usage(PyInt(7)), Usage(JObject(<<KV(S_users, PyInt(3))>>)),
    Usage(PyStr(S_users)), Usage(PyStr(<<"x">>)), Usage(PyNone),
    Usage(JArray(<<PyStr(S_users)>>)), Usage(JArray(<<>>)),
    Usage(JArray(<<PyInt(1), PyInt(2)>>)),
    PyInt(5), PyNone, PyStr(<<"a", "b">>), JArray(<<>>),
    JArray(<<PyInt(1), PyInt(2)>>) }

\* the key paths of the model
AttrValues ==
  { <<PyStr(S_usage)>>, <<PyStr(S_usage), PyStr(S_users)>>,
    <<PyStr(S_usage), PyInt(0)>>, <<PyStr(S_usage), PyInt(-1)>>,
    <<PyInt(0)>>, <<PyInt(2)>>, <<PyInt(-1)>>, <<PyInt(-3)>> }

NinfoInit ==
  /\ schemas \in {FetchFails, NotJson} \cup {Json(v) : v \in SchemasValues}
  /\ nodeinfo \in {FetchFails, NotJson} \cup {Json(v) : v \in NodeinfoValues}
  /\ attr \in AttrValues
  /\ active_stem = PyNone
  /\ key_idx = 0
  /\ npc = "call"
  /\ nret = PyNone
  /\ EarlierIdle
  /\ HttpsIdle
  /\ UrlIdle
  /\ StgIdle
  /\ SkarfIdle
  /\ DiffIdle

\* lines 265-280 and 308: the root document is fetched and parsed and the
\* href of its last link is taken
NinfoSchemas ==
  /\ npc = "call"
  /\ IF schemas.kind # "json"
     THEN npc' = "done" /\ nret' = PyNone /\ UNCHANGED active_stem
     ELSE LET href == HrefOf(schemas.value) IN
          IF href.go
          THEN npc' = "fetch" /\ active_stem' = href.stem /\ UNCHANGED nret
          ELSE npc' = "done" /\ nret' = href.ret /\ UNCHANGED active_stem
  /\ UNCHANGED <<schemas, nodeinfo, attr, key_idx>>
  /\ UNCHANGED nonNinfoVars

\* lines 281-293: the nodeinfo document is fetched and parsed.  fetch_url
\* takes a str apart (line 233) and concatenates it in its debug messages
\* (line 257): an href that is no str raises AttributeError or TypeError
\* there, which line 283 does not catch.
NinfoNodeinfo ==
  /\ npc = "fetch"
  /\ IF active_stem.t # "str"
     THEN /\ npc' = "done"
          /\ nret' = Raises(IF active_stem.t = "none" THEN "TypeError"
                            ELSE "AttributeError")
          /\ UNCHANGED active_stem
     ELSE IF nodeinfo.kind # "json"
     THEN npc' = "done" /\ nret' = PyNone /\ UNCHANGED active_stem
     ELSE npc' = "walk" /\ active_stem' = nodeinfo.value /\ UNCHANGED nret
  /\ UNCHANGED <<schemas, nodeinfo, attr, key_idx>>
  /\ UNCHANGED nonNinfoVars

\* lines 294-306: one pass of the loop over attr
NinfoKey ==
  /\ npc = "walk"
  /\ key_idx < Len(attr)
  /\ LET step == KeyStep(active_stem, attr[key_idx + 1]) IN
       IF step.go
       THEN /\ active_stem' = step.stem
            /\ key_idx' = key_idx + 1
            /\ UNCHANGED <<npc, nret>>
       ELSE /\ npc' = "done"
            /\ nret' = step.ret
            /\ UNCHANGED <<active_stem, key_idx>>
  /\ UNCHANGED <<schemas, nodeinfo, attr>>
  /\ UNCHANGED nonNinfoVars

\* line 307
NinfoReturn ==
  /\ npc = "walk"
  /\ key_idx = Len(attr)
  /\ npc' = "done"
  /\ nret' = active_stem
  /\ UNCHANGED <<schemas, nodeinfo, attr, active_stem, key_idx>>
  /\ UNCHANGED nonNinfoVars

NinfoNext ==
  \/ NinfoSchemas
  \/ NinfoNodeinfo
  \/ NinfoKey
  \/ NinfoReturn

SpecNinfo == NinfoInit /\ [][NinfoNext]_vars

-----------------------------------------------------------------------------
(* test_ninfo, test_ninfo2 and test_url *)

S_json == <<"j", "s", "o", "n">>

\* what page.getheader('content-type') returns: None without the header
ContentTypes ==
  { PyNone, PyStr(<<>>),
    PyStr(<<"a", "p", "p", "l", "i", "c", "a", "t", "i", "o", "n", "/", "j",
            "s", "o", "n", ";", " ", "c", "h", "a", "r", "s", "e", "t", "=",
            "u", "t", "f", "-", "8">>),
    PyStr(<<"a", "p", "p", "l", "i", "c", "a", "t", "i", "o", "n", "/", "J",
            "S", "O", "N">>),
    PyStr(<<"t", "e", "x", "t", "/", "h", "t", "m", "l">>) }

\* What urlopen(req) can end in: a response with its content-type header,
\* or one of the errors of fetch_url above (the body is not read)
Page(header) == [kind |-> "ok", code |-> 0, header |-> header]

UrlResponses ==
  {Page(h) : h \in ContentTypes}
    \cup {Resp(k, 0) : k \in {"url_timeout", "url_error", "raw_timeout", "raw_reset"}}
    \cup {Resp("http", c) : c \in HttpCodes}

\* a with block that takes any declared content type
AnyContentType(want, r) ==
  IF Truthy(want) THEN PyBool(Truthy(r.header)) ELSE PyBool(TRUE)

\* lines 405-412 and 425-427: what a response makes the call return
OnPage(want, r) ==
  IF Truthy(want)
  THEN IF Truthy(r.header) /\ Contains(r.header.s, want.s)
       THEN PyBool(TRUE)
       ELSE PyBool(FALSE)
  ELSE PyBool(TRUE)

\* lines 403-427: what the try statement does with the outcome
UrlStep(want, r) ==
  CASE r.kind = "ok" -> Leave(OnPage(want, r))
    [] r.kind = "http" -> Leave(PyBool(FALSE))
    [] r.kind \in {"url_timeout", "url_error"} -> [go |-> TRUE]
    [] OTHER -> Leave(PyBool(FALSE))

\* test_ninfo and test_ninfo2 pass 'json' and the default retries
UrlInit ==
  /\ content_type \in {PyNone, PyStr(S_json)}
  /\ url_retries = HTTPS_RETRIES
  /\ requests = <<>>
  /\ upc = "call"
  /\ uret = PyNone
  /\ EarlierIdle
  /\ HttpsIdle
  /\ NinfoIdle
  /\ StgIdle
  /\ SkarfIdle
  /\ DiffIdle

\* lines 399-401
UrlExhausted ==
  /\ upc = "call"
  /\ url_retries = 0
  /\ upc' = "done"
  /\ uret' = PyBool(FALSE)
  /\ UNCHANGED <<content_type, url_retries, requests>>
  /\ UNCHANGED nonUrlVars

\* lines 403-427: one request; on URLError the function calls itself with
\* retries - 1 and returns what that call returns
UrlRequest ==
  /\ upc = "call"
  /\ url_retries # 0
  /\ \E r \in UrlResponses :
       /\ requests' = Append(requests, r)
       /\ LET step == UrlStep(content_type, r) IN
            IF step.go
            THEN url_retries' = url_retries - 1 /\ UNCHANGED <<upc, uret>>
            ELSE upc' = "done" /\ uret' = step.ret /\ UNCHANGED url_retries
  /\ UNCHANGED content_type
  /\ UNCHANGED nonUrlVars

UrlNext ==
  \/ UrlExhausted
  \/ UrlRequest

SpecUrl == UrlInit /\ [][UrlNext]_vars

-----------------------------------------------------------------------------
(* Consecutive stages of the test pipeline: the script's list `instances`  *)
(* goes through one perform_test call after the other, each with its own   *)
(* workers.                                                                *)

\* two test options of one run, in the order of lines 721-766
Pipeline == <<"dns", "https">>

\* a map that returns once its queue of tasks is empty
MapReadyQueueEmpty(n, taken, active) == taken = n

\* ThreadPool.map returns a list once every task it submitted is done
MapReady(n, taken, active) == taken = n /\ active = {}

\* the objects of a run: host i has the domain i
Heap(n) == [i \in 1..n |-> Server(i, Attrs(i, 1, i))]

StgInit ==
  /\ \E n \in 0..MaxHosts :
       /\ heap = Heap(n)
       /\ work = [i \in 1..n |-> PyObj(i)]
  /\ stage = 1
  /\ returned = <<>>
  /\ queue = <<>>
  /\ w_slots = <<>>
  /\ begun = 0
  /\ w_running = {}
  /\ w_threads = 0
  /\ w_results = <<>>
  /\ wpc = "call"
  /\ EarlierIdle
  /\ HttpsIdle
  /\ NinfoIdle
  /\ UrlIdle
  /\ SkarfIdle
  /\ DiffIdle

\* perform_test, lines 125-133: choose the mode; the pool branch reads the
\* domain of every object and submits the domains
StgDispatch ==
  /\ wpc = "call"
  /\ IF Sequential(Len(work))
     THEN /\ wpc' = IF Len(work) = 0 THEN "check" ELSE "seq"
          /\ UNCHANGED <<w_threads, w_slots, queue>>
     ELSE /\ w_threads' = ThreadCount(Len(work))
          /\ queue' = [i \in 1..Len(work) |-> heap[work[i].domain].domain]
          /\ w_slots' = [i \in 1..Len(work) |-> Pending]
          /\ wpc' = "pool"
  /\ UNCHANGED <<heap, work, stage, returned, begun, w_running, w_results>>
  /\ UNCHANGED nonStgVars

\* lines 127-128: test(instances[ii].domain) is called and its result
\* appended
StgSeqCall ==
  /\ wpc = "seq"
  /\ begun' = begun + 1
  /\ \E v \in ProbeOutcomes("test") :
       IF v = PyRaise
       THEN wpc' = "raised" /\ UNCHANGED w_results
       ELSE /\ w_results' = Append(w_results, v)
            /\ wpc' = IF Len(w_results) + 1 = Len(work) THEN "check" ELSE "seq"
  /\ UNCHANGED <<heap, work, stage, returned, queue, w_slots, w_running, w_threads>>
  /\ UNCHANGED nonStgVars

\* ThreadPool.map: an idle worker takes the next domain of the queue and
\* calls the test on it
StgPoolTake ==
  /\ wpc = "pool"
  /\ begun < Len(queue)
  /\ Cardinality(w_running) < w_threads
  /\ begun' = begun + 1
  /\ w_running' = w_running \cup {begun + 1}
  /\ UNCHANGED <<heap, work, stage, returned, queue, w_slots, w_threads,
                 w_results, wpc>>
  /\ UNCHANGED nonStgVars

\* ThreadPool.map: the test of a running task ends, in any order
StgPoolReturn ==
  /\ wpc = "pool"
  /\ \E i \in w_running : \E v \in ProbeOutcomes("test") :
       /\ w_slots' = PoolStore(w_slots, i, v)
       /\ w_running' = w_running \ {i}
  /\ UNCHANGED <<heap, work, stage, returned, queue, begun, w_threads, w_results,
                 wpc>>
  /\ UNCHANGED nonStgVars

\* line 133: map returns the list of all slots, or raises again the
\* exception a task ended with
StgPoolJoin ==
  /\ wpc = "pool"
  /\ MapReady(Len(queue), begun, w_running)
  /\ IF \E i \in 1..Len(w_slots) : w_slots[i] = PyRaise
     THEN wpc' = "raised" /\ UNCHANGED w_results
     ELSE w_results' = w_slots /\ wpc' = "check"
  /\ UNCHANGED <<heap, work, stage, returned, queue, w_slots, begun, w_running,
                 w_threads>>
  /\ UNCHANGED nonStgVars

\* lines 135-144 and the assignment of the script (`instances =
\* perform_test(...)`, lines 722-766): the list is marked and filtered and
\* handed to the next call
StgFilter ==
  /\ wpc = "check"
  /\ IF CountMismatch("test", work, w_results)
     THEN wpc' = "abort" /\ UNCHANGED <<work, stage, returned>>
     ELSE /\ work' = KeepTruthy(MarkFailed(work, w_results))
          /\ returned' = Append(returned, work')
          /\ IF stage < Len(Pipeline)
             THEN stage' = stage + 1 /\ wpc' = "call"
             ELSE wpc' = "end" /\ UNCHANGED stage
  /\ queue' = <<>>
  /\ w_slots' = <<>>
  /\ begun' = 0
  /\ w_threads' = 0
  /\ w_results' = <<>>
  /\ UNCHANGED <<heap, w_running>>
  /\ UNCHANGED nonStgVars

StgNext ==
  \/ StgDispatch
  \/ StgSeqCall
  \/ StgPoolTake
  \/ StgPoolReturn
  \/ StgPoolJoin
  \/ StgFilter

SpecStages == StgInit /\ [][StgNext]_vars

-----------------------------------------------------------------------------
(* process_skarf.py with one input file: parse_input, and the update of a  *)
(* consolidated file                                                       *)

\* the lines an input file has at most
MaxObs == 2

\* FediServer.__init__ of process_skarf.py, lines 11-18: hits is 1, and
\* `if last_seen:` tests the argument as it was passed
SkarfServer(domain, first_seen, last_seen) ==
  Server(domain, FediServerInit(first_seen, last_seen, 1))

\* ---- urllib.parse.urlparse(tok).hostname, for the URLs of the model
SchemeChars ==
  Range(LowerCase) \cup Range(UpperCase) \cup Range(Digits) \cup {"+", "-", "."}

\* the position of the first character of cs that is in set, or 0
FirstIn(cs, set) ==
  IF \E i \in 1..Len(cs) : cs[i] \in set
  THEN CHOOSE i \in 1..Len(cs) : cs[i] \in set /\ \A h \in 1..(i - 1) : cs[h] \notin set
  ELSE 0

\* the position of the last character of cs that is in set, or 0
LastIn(cs, set) ==
  IF \E i \in 1..Len(cs) : cs[i] \in set
  THEN CHOOSE i \in 1..Len(cs) :
         cs[i] \in set /\ \A h \in (i + 1)..Len(cs) : cs[h] \notin set
  ELSE 0

\* urlsplit: the url without its scheme (letters, digits, +, - and . up to
\* the first colon, the first a letter)
AfterScheme(tok) ==
  LET i == FirstIn(tok, {":"}) IN
  IF i > 1 /\ tok[1] \in Range(LowerCase) \cup Range(UpperCase)
     /\ \A h \in 1..(i - 1) : tok[h] \in SchemeChars
  THEN SubSeq(tok, i + 1, Len(tok))
  ELSE tok

\* urlsplit: the netloc, what follows a leading // up to the first of / ? #
Netloc(rest) ==
  IF Len(rest) >= 2 /\ rest[1] = "/" /\ rest[2] = "/"
  THEN LET tail == SubSeq(rest, 3, Len(rest))
           d == FirstIn(tail, {"/", "?", "#"})
       IN  IF d = 0 THEN tail ELSE SubSeq(tail, 1, d - 1)
  ELSE <<>>

\* the hostname property: the netloc without userinfo and port, in lower
\* case, None when empty
HostOf(netloc) ==
  LET at == LastIn(netloc, {"@"})
      hostinfo == SubSeq(netloc, at + 1, Len(netloc))
      colon == FirstIn(hostinfo, {":"})
      name == IF colon = 0 THEN hostinfo ELSE SubSeq(hostinfo, 1, colon - 1)
  IN  IF name = <<>> THEN PyNone ELSE PyStr(Lower(name))

\* lines 63-68: the hostname of a token, None, or the ValueError urlparse
\* raises for a netloc with one bracket
UrlHostname(tok) ==
  LET netloc == Netloc(AfterScheme(tok)) IN
  IF (FirstIn(netloc, {"["}) # 0) # (FirstIn(netloc, {"]"}) # 0)
  THEN Raises("ValueError")
  ELSE HostOf(netloc)

\* a loop over the tokens that records a hostname the first time only
RECURSIVE PushTokensFirstOnly(_, _, _)
PushTokensFirstOnly(rv, ts, toks) ==
  IF toks = <<>> THEN rv
  ELSE LET hostname == UrlHostname(Head(toks)) IN
       IF hostname.t = "str" /\ Truthy(hostname) /\ ~HasKey(rv, Strip(hostname.s))
       THEN PushTokensFirstOnly(
              Put(rv, Strip(hostname.s), SkarfServer(Strip(hostname.s), PyInt(ts), PyNone)),
              ts, Tail(toks))
       ELSE PushTokensFirstOnly(rv, ts, Tail(toks))

\* lines 62-73: the loop over the tokens behind the timestamp
RECURSIVE PushTokens(_, _, _)
PushTokens(rv, ts, toks) ==
  IF toks = <<>> THEN rv
  ELSE LET hostname == UrlHostname(Head(toks)) IN
       IF hostname.t = "str" /\ Truthy(hostname)
       THEN LET key == Strip(hostname.s) IN
            PushTokens(IF HasKey(rv, key)
                       THEN Put(rv, key, push_hit(Get(rv, key), ts))
                       ELSE Put(rv, key, SkarfServer(key, PyInt(ts), PyNone)),
                       ts, Tail(toks))
       ELSE PushTokens(rv, ts, Tail(toks))

\* lines 54-73: one line of the input file, args.delimiter being ','
ObservationLine(rv, line) ==
  IF Len(line) > 0
  THEN LET toks == Split(line, ",") IN
       IF IntParses(Strip(toks[1]))
       THEN PushTokens(rv, IntOfStr(Strip(toks[1])), Tail(toks))
       ELSE rv
  ELSE rv

\* parse_consolidated of process_skarf.py, lines 88-96: one line of the
\* consolidated file; no exception is caught
ConsolidatedLine(rv, line) ==
  IF Len(line) = 0 \/ line[1] = "#" THEN [rv |-> rv, exc |-> "none"]
  ELSE LET toks == Split(line, ",") IN
       IF Len(toks) < 3 THEN [rv |-> rv, exc |-> "IndexError"]
       ELSE IF ~IntParses(Strip(toks[2])) \/ ~IntParses(Strip(toks[3]))
       THEN [rv |-> rv, exc |-> "ValueError"]
       ELSE LET key == Strip(toks[1])
                made == Put(rv, key,
                            SkarfServer(key, PyStr(Strip(toks[2])), PyStr(Strip(toks[3]))))
            IN  IF Len(toks) < 4 THEN [rv |-> made, exc |-> "IndexError"]
                ELSE IF ~IntParses(Strip(toks[4])) THEN [rv |-> made, exc |-> "ValueError"]
                ELSE [rv |-> Put(made, key,
                                 [Get(made, key) EXCEPT !.hits = IntOfStr(Strip(toks[4]))]),
                      exc |-> "none"]

\* lines 79-99: the dict of the file, or the exception of its first bad line
RECURSIVE ConsolidatedFile(_, _)
ConsolidatedFile(rv, flines) ==
  IF flines = <<>> THEN [rv |-> rv, exc |-> "none"]
  ELSE LET one == ConsolidatedLine(rv, Head(flines)) IN
       IF one.exc # "none" THEN one ELSE ConsolidatedFile(one.rv, Tail(flines))

\* lines 149-154: one item of fedi_servers goes into file_servers
UpdateItem(fs, key, sv) ==
  IF HasKey(fs, key)
  THEN Put(fs, key, combine(Get(fs, key), sv.hits, sv.first_seen,
                            sv.last_seen))
  ELSE Put(fs, key,
           [SkarfServer(key, PyInt(sv.first_seen), PyInt(sv.last_seen))
              EXCEPT !.hits = sv.hits])

-----------------------------------------------------------------------------
\* the lines of the input files of the model, by kind
ObsKinds ==
  {"seen5", "seen2", "two_hosts", "negative", "bad_stamp", "no_scheme",
   "padded", "empty", "bad_url"}

ObsText(kind) ==
  \* "5,https://a.b/x"
  CASE kind = "seen5" ->
         <<"5", ",", "h", "t", "t", "p", "s", ":", "/", "/", "a", ".", "b",
         "/", "x">>
  \* "2,https://a.b"
    [] kind = "seen2" ->
         <<"2", ",", "h", "t", "t", "p", "s", ":", "/", "/", "a", ".", "b">>
  \* "0,https://c.d/,http://a.b,https://a.b/y"
    [] kind = "two_hosts" ->
         <<"0", ",", "h", "t", "t", "p", "s", ":", "/", "/", "c", ".", "d",
           "/", ",", "h", "t", "t", "p", ":", "/", "/", "a", ".", "b", ",",
           "h", "t", "t", "p", "s", ":", "/", "/", "a", ".", "b", "/", "y">>
  \* "-5,https://c.d"
    [] kind = "negative" ->
         <<"-", "5", ",", "h", "t", "t", "p", "s", ":", "/", "/", "c", ".",
         "d">>
  \* "x,https://a.b"
    [] kind = "bad_stamp" ->
         <<"x", ",", "h", "t", "t", "p", "s", ":", "/", "/", "a", ".", "b">>
  \* "7,a.b"
    [] kind = "no_scheme" ->
         <<"7", ",", "a", ".", "b">>
  \* " 9 ,https://A.B/"
    [] kind = "padded" ->
         <<" ", "9", " ", ",", "h", "t", "t", "p", "s", ":", "/", "/", "A",
         ".", "B", "/">>
  \* ""
    [] kind = "empty" ->
         <<>>
  \* "4,http://[,https://u@c.d:80/?q"
    [] kind = "bad_url" ->
         <<"4", ",", "h", "t", "t", "p", ":", "/", "/", "[", ",", "h", "t",
         "t", "p", "s", ":", "/", "/", "u", "@", "c", ".", "d", ":", "8",
         "0", "/", "?", "q">>

\* consolidated files: the header, the lines of the servers and the empty
\* string behind the last newline
\* a.b,1,9,4
F_ab ==
  <<Header,
    <<"a", ".", "b", ",", "1", ",", "9", ",", "4">>,
    <<>>>>

\* c.d,0,0,1; e.f,2,2,2
F_cd_ef ==
  <<Header,
    <<"c", ".", "d", ",", "0", ",", "0", ",", "1">>,
    <<"e", ".", "f", ",", "2", ",", "2", ",", "2">>,
    <<>>>>

\* a.b,1
F_short ==
  <<Header,
    <<"a", ".", "b", ",", "1">>,
    <<>>>>

\* the output file before the run: none (also an unreadable one), or one
\* of the files above
OutFiles ==
  {[kind |-> "missing"]} \cup {[kind |-> "file", lines |-> f] : f \in {F_ab, F_cd_ef, F_short}}

RECURSIVE KindLists(_)
KindLists(n) ==
  IF n = 0 THEN {<<>>}
  ELSE KindLists(n - 1)
         \cup {Append(l, k) : l \in {x \in KindLists(n - 1) : Len(x) = n - 1}, k \in ObsKinds}

SkarfInit ==
  /\ obs_kinds \in KindLists(MaxObs)
  /\ obs_lines = [i \in 1..Len(obs_kinds) |-> ObsText(obs_kinds[i])]
  /\ obs_n = 0
  /\ fedi_servers = <<>>
  /\ \/ out_given = FALSE /\ out_file = [kind |-> "none"]
     \/ out_given = TRUE /\ out_file \in OutFiles
  /\ file_servers = <<>>
  /\ file0 = <<>>
  /\ upd_n = 0
  /\ out_text = <<>>
  /\ kpc = "parse"
  /\ EarlierIdle
  /\ HttpsIdle
  /\ NinfoIdle
  /\ UrlIdle
  /\ StgIdle
  /\ DiffIdle

\* parse_input, lines 54-73: one pass of the loop over the lines
SkarfObservation ==
  /\ kpc = "parse"
  /\ obs_n < Len(obs_lines)
  /\ fedi_servers' = ObservationLine(fedi_servers, obs_lines[obs_n + 1])
  /\ obs_n' = obs_n + 1
  /\ UNCHANGED <<obs_kinds, obs_lines, out_given, out_file, file_servers, file0,
                 upd_n, out_text, kpc>>
  /\ UNCHANGED nonSkarfVars

\* lines 75 and 143-146: parse_input returns; with --output-file the
\* consolidated file is parsed, and an exception of its parsing ends the
\* script.  Lines 158-167: without it the servers are printed (--top is
\* left out).
SkarfParsed ==
  /\ kpc = "parse"
  /\ obs_n = Len(obs_lines)
  /\ IF out_given
     THEN LET got == IF out_file.kind = "missing"
                     THEN [rv |-> <<>>, exc |-> "none"]
                     ELSE ConsolidatedFile(<<>>, out_file.lines)
          IN  IF got.exc # "none"
              THEN kpc' = "raised" /\ UNCHANGED <<file_servers, file0, out_text>>
              ELSE /\ file_servers' = got.rv
                   /\ file0' = got.rv
                   /\ kpc' = "update"
                   /\ UNCHANGED out_text
     ELSE /\ out_text' = [i \in 1..Len(fedi_servers) |-> fedi_servers[i].v]
          /\ kpc' = "printed"
          /\ UNCHANGED <<file_servers, file0>>
  /\ UNCHANGED <<obs_kinds, obs_lines, obs_n, fedi_servers, out_given, out_file, upd_n>>
  /\ UNCHANGED nonSkarfVars

\* lines 148-153: one pass of the loop over fedi_servers.items()
SkarfUpdate ==
  /\ kpc = "update"
  /\ upd_n < Len(fedi_servers)
  /\ file_servers' = UpdateItem(file_servers, fedi_servers[upd_n + 1].k,
                                fedi_servers[upd_n + 1].v)
  /\ upd_n' = upd_n + 1
  /\ UNCHANGED <<obs_kinds, obs_lines, obs_n, fedi_servers, out_given, out_file,
                 file0, out_text, kpc>>
  /\ UNCHANGED nonSkarfVars

\* line 155 and write_consolidated, lines 103-124: the file is written, or
\* the script exits because it cannot be
SkarfWrite ==
  /\ kpc = "update"
  /\ upd_n = Len(fedi_servers)
  /\ \E writable \in BOOLEAN :
       IF writable
       THEN out_text' = Written(file_servers) /\ kpc' = "written"
       ELSE kpc' = "unwritable" /\ UNCHANGED out_text
  /\ UNCHANGED <<obs_kinds, obs_lines, obs_n, fedi_servers, out_given, out_file,
                 file_servers, file0, upd_n>>
  /\ UNCHANGED nonSkarfVars

SkarfNext ==
  \/ SkarfObservation
  \/ SkarfParsed
  \/ SkarfUpdate
  \/ SkarfWrite

SpecSkarf == SkarfInit /\ [][SkarfNext]_vars

-----------------------------------------------------------------------------
(* process_skarf.py with two input files: the diff of their domains         *)

\* the domains the two input files are drawn from
DiffDomains ==
  {<<"a", ".", "b">>, <<"c", ".", "d">>, <<"e", ".", "f">>, <<"g", ".", "h">>}

\* lines 170-173: the domains of the dict parse_input returned (its keys,
\* each once), after list.sort(): ascending by code point
RECURSIVE SortedDomains(_)
SortedDomains(keys) ==
  IF keys = {} THEN <<>>
  ELSE LET least == CHOOSE d \in keys : \A e \in keys \ {d} : StrLess(d, e)
       IN  <<least>> \o SortedDomains(keys \ {least})

\* range(max(len(domains_1), len(domains_2))), line 176
DiffPasses == IF Len(domains_1) > Len(domains_2) THEN Len(domains_1)
              ELSE Len(domains_2)

\* a subscript of lines 177-183 is in range (the positions are never negative)
InRange(ds, pos) == pos < Len(ds)

\* ds[pos], positions counted from 0
At(ds, pos) == ds[pos + 1]

\* lines 170-175
DiffInit ==
  /\ \E keys_1 \in SUBSET DiffDomains : domains_1 = SortedDomains(keys_1)
  /\ \E keys_2 \in SUBSET DiffDomains : domains_2 = SortedDomains(keys_2)
  /\ pos_1 = 0
  /\ pos_2 = 0
  /\ ii_n = 0
  /\ diff_out = <<>>
  /\ dfpc = "loop"
  /\ EarlierIdle
  /\ HttpsIdle
  /\ NinfoIdle
  /\ UrlIdle
  /\ StgIdle
  /\ SkarfIdle

\* lines 177-179: the domains at both positions are equal
DiffEqual ==
  /\ dfpc = "loop"
  /\ ii_n < DiffPasses
  /\ InRange(domains_1, pos_1) /\ InRange(domains_2, pos_2)
  /\ At(domains_1, pos_1) = At(domains_2, pos_2)
  /\ pos_1' = pos_1 + 1
  /\ pos_2' = pos_2 + 1
  /\ ii_n' = ii_n + 1
  /\ UNCHANGED <<domains_1, domains_2, diff_out, dfpc>>
  /\ UNCHANGED nonDiffVars

\* lines 180-182: the domain of the second file is the smaller one
DiffSecond ==
  /\ dfpc = "loop"
  /\ ii_n < DiffPasses
  /\ InRange(domains_1, pos_1) /\ InRange(domains_2, pos_2)
  /\ StrLess(At(domains_2, pos_2), At(domains_1, pos_1))
  /\ diff_out' = Append(diff_out, <<"<", " ">> \o At(domains_2, pos_2))
  /\ pos_2' = pos_2 + 1
  /\ ii_n' = ii_n + 1
  /\ UNCHANGED <<domains_1, domains_2, pos_1, dfpc>>
  /\ UNCHANGED nonDiffVars

\* lines 183-185: the domain of the first file is the smaller one
DiffFirst ==
  /\ dfpc = "loop"
  /\ ii_n < DiffPasses
  /\ InRange(domains_1, pos_1) /\ InRange(domains_2, pos_2)
  /\ StrLess(At(domains_1, pos_1), At(domains_2, pos_2))
  /\ diff_out' = Append(diff_out, <<">", " ">> \o At(domains_1, pos_1))
  /\ pos_1' = pos_1 + 1
  /\ ii_n' = ii_n + 1
  /\ UNCHANGED <<domains_1, domains_2, pos_2, dfpc>>
  /\ UNCHANGED nonDiffVars

\* line 177: domains_1[pos_1] or domains_2[pos_2] is out of range, the
\* IndexError ends the script
DiffIndexError ==
  /\ dfpc = "loop"
  /\ ii_n < DiffPasses
  /\ ~(InRange(domains_1, pos_1) /\ InRange(domains_2, pos_2))
  /\ dfpc' = "raised"
  /\ ii_n' = ii_n + 1
  /\ UNCHANGED <<domains_1, domains_2, pos_1, pos_2, diff_out>>
  /\ UNCHANGED nonDiffVars

\* line 176: the range is exhausted, the script ends
DiffEnd ==
  /\ dfpc = "loop"
  /\ ii_n = DiffPasses
  /\ dfpc' = "done"
  /\ UNCHANGED <<domains_1, domains_2, pos_1, pos_2, ii_n, diff_out>>
  /\ UNCHANGED nonDiffVars

DiffNext ==
  \/ DiffEqual
  \/ DiffSecond
  \/ DiffFirst
  \/ DiffIndexError
  \/ DiffEnd

SpecDiff == DiffInit /\ [][DiffNext]_vars

(* Claims about the executor (SpecExec) *)

\* the indices of the hosts for which the probe returned v
HostsWith(v) == {i \in 1..Len(probed) : probed[i] = v}

\* the indices of the hosts for which the probe returned a falsy value
HostsFalsy == {i \in 1..Len(probed) : ~Truthy(probed[i])}

TestDone == op = "test" /\ epc = "done"
CatDone == op = "cat" /\ epc = "done"
TotalDone == op = "total" /\ epc = "done"

\* C1: perform_test returns exactly the hosts whose test returned True, in
\* their original relative order (a subsequence of the input, never longer),
\* in sequential mode and in pool mode.
C1_StableFilter ==
  TestDone =>
    /\ Len(ret) <= Len(probed)
    /\ \A j \in 1..Len(ret) :
         /\ ret[j].t = "obj"
         /\ ret[j].domain \in HostsWith(PyBool(TRUE))
    /\ \A i \in HostsWith(PyBool(TRUE)) : \E j \in 1..Len(ret) : ret[j] = PyObj(i)
    /\ \A j \in 1..Len(ret) : \A h \in 1..Len(ret) :
         j < h => ret[j].domain < ret[h].domain

\* a pool-mode call in which hosts 1 and 3 fail and hosts 2 and 4 pass
C1_Witness ==
  /\ TestDone
  /\ thread_count >= MIN_THREADS
  /\ probed = <<PyBool(FALSE), PyBool(TRUE), PyBool(FALSE), PyBool(TRUE)>>
  /\ ret = <<PyObj(2), PyObj(4)>>

RECURSIVE SumEntries(_, _)
SumEntries(d, n) == IF n = 0 THEN 0 ELSE SumEntries(d, n - 1) + d[n].v

\* C2: in the tally of perform_cat the counts of all buckets other than
\* Total add up to the Total entry, and the Total entry is the number of
\* input hosts, whatever labels the categorization function returns.
C2_TallySumsToTotal ==
  CatDone =>
    /\ ret[1].k = PyStr(S_Total)
    /\ ret[1].v = Len(instances)
    /\ SumEntries(Tail(ret), Len(ret) - 1) = ret[1].v

\* the category a host is counted in: its label, or Other
CategoryOf(i) == IF Truthy(probed[i]) THEN probed[i] ELSE PyStr(S_Other)

HostsIn(cat) == {i \in 1..Len(probed) : CategoryOf(i) = cat}

\* the first host of a category
FirstOf(cat) == CHOOSE i \in HostsIn(cat) : \A h \in HostsIn(cat) : i <= h

\* C3: the tally lists Total first, then every category with its count in
\* descending order of count, categories of equal count in the order in
\* which they were first encountered; for the results odd, even, odd it is
\* Total:3, odd:2, even:1.  (A category that is itself named Total has no
\* entry of its own: its count is stored under the first key, see C2.)
C3_TallyOrder ==
  CatDone =>
    /\ ret[1].k = PyStr(S_Total)
    /\ \A i \in 1..Len(probed) :
         CategoryOf(i) # PyStr(S_Total) =>
           \E j \in 2..Len(ret) : ret[j].k = CategoryOf(i)
    /\ \A j \in 2..Len(ret) :
         /\ HostsIn(ret[j].k) # {}
         /\ ret[j].v = Cardinality(HostsIn(ret[j].k))
    /\ \A j \in 2..Len(ret) : \A h \in 2..Len(ret) :
         j < h =>
           \/ ret[j].v > ret[h].v
           \/ ret[j].v = ret[h].v /\ FirstOf(ret[j].k) < FirstOf(ret[h].k)
    /\ probed = <<PyStr(S_odd), PyStr(S_even), PyStr(S_odd)>> =>
         ret = << [k |-> PyStr(S_Total), v |-> 3],
                  [k |-> PyStr(S_odd), v |-> 2],
                  [k |-> PyStr(S_even), v |-> 1] >>

\* two categories of equal count: the one met first is listed first
C3_Witness ==
  /\ CatDone
  /\ probed = <<PyStr(S_even), PyStr(S_odd), PyStr(S_odd), PyStr(S_even)>>
  /\ ret = << [k |-> PyStr(S_Total), v |-> 4],
              [k |-> PyStr(S_even), v |-> 2],
              [k |-> PyStr(S_odd), v |-> 2] >>

\* the count the tally gives for a key, 0 when the key is not in it
CountOf(d, key) == IF HasKey(d, key) THEN Get(d, key) ELSE 0

\* C4 as claimed: the count of Other is the number of hosts with a None
\* result plus the number of hosts with the literal label 'Other'.
C4_OtherIsNonePlusLiteral ==
  CatDone =>
    CountOf(ret, PyStr(S_Other))
      = Cardinality(HostsWith(PyNone)) + Cardinality(HostsWith(PyStr(S_Other)))

\* C4 as amended: a host whose result is None or any other falsy value (the
\* empty string) is counted in Other, a host with a non-empty label under
\* exactly that label: the count of Other is the number of hosts with a
\* falsy result plus the number of hosts with the literal label 'Other'.
C4_OtherIsFalsyPlusLiteral ==
  CatDone =>
    /\ CountOf(ret, PyStr(S_Other))
         = Cardinality(HostsFalsy) + Cardinality(HostsWith(PyStr(S_Other)))
    /\ \A i \in 1..Len(probed) :
         Truthy(probed[i]) /\ probed[i] # PyStr(S_Other) =>
           CountOf(ret, probed[i]) = Cardinality(HostsWith(probed[i]))

\* None, the empty string and the literal label all end in Other
C4_Witness ==
  /\ CatDone
  /\ probed = <<PyNone, PyStr(<<>>), PyStr(S_Other), PyStr(S_odd)>>
  /\ CountOf(ret, PyStr(S_Other)) = 3
  /\ CountOf(ret, PyStr(S_odd)) = 1

\* a result the claim calls numeric: an int, a float, a string of an integer
IsNumeric(x) ==
  \/ x.t \in {"int", "float"}
  \/ x.t = "str" /\ IntParses(x.s)

NumericValue(x) ==
  CASE x.t = "int" -> x.n
    [] x.t = "float" -> x.f
    [] x.t = "str" -> IntOfStr(x.s)

RECURSIVE SumNumeric(_, _)
SumNumeric(rs, n) ==
  IF n = 0 THEN 0
  ELSE SumNumeric(rs, n - 1)
         + (IF IsNumeric(rs[n]) /\ NumericValue(rs[n]) >= 0
            THEN NumericValue(rs[n]) ELSE 0)

\* C5: perform_total returns the sum of the non-negative numeric results;
\* absent, negative and non-numeric results add nothing, and none of them
\* makes the operation fail.
C5_SumOfNumeric ==
  /\ op = "total" => epc # "abort"
  /\ TotalDone => ret = PyInt(SumNumeric(probed, Len(probed)))

-----------------------------------------------------------------------------
(* Claims about fetch_url (SpecFetch) *)

IsHttpError(r) == r.kind = "http"

\* a timeout, a reset connection or a failed lookup, however urllib raises it
IsTransportError(r) ==
  r.kind \in {"url_timeout", "url_error", "raw_timeout", "raw_reset"}

\* C6: an HTTP error status ends fetch_url with the HTTPError outcome on the
\* attempt that received it; no request follows it, whatever budget is left.
C6_HttpErrorFailsAtOnce ==
  \A i \in 1..Len(attempts) :
    IsHttpError(attempts[i]) =>
      /\ i = Len(attempts)
      /\ fpc = "done"
      /\ outcome = "HTTPError"

\* a 404 on the second request, with budget left for another one
C6_Witness ==
  /\ budget = HTTPS_RETRIES
  /\ attempts = <<Resp("url_error", 0), Resp("http", 404)>>
  /\ retries = 2
  /\ fpc = "done"
  /\ outcome = "HTTPError"

\* C7 as claimed: a call with the default budget whose requests are all
\* answered with HTTP 503 makes three requests and ends RetriesExhausted.
C7_Http503ExhaustsBudget ==
  ( /\ fpc = "done"
    /\ budget = HTTPS_RETRIES
    /\ attempts # <<>>
    /\ \A i \in 1..Len(attempts) : attempts[i] = Resp("http", 503) )
  => /\ outcome = "retries_exhausted"
     /\ Len(attempts) = HTTPS_RETRIES

\* C7 as amended: a call with the default budget whose first request is
\* answered with HTTP 503 ends with the HTTPError outcome after that one
\* request; the budget is not used.
C7_Http503FailsAtOnce ==
  ( /\ budget = HTTPS_RETRIES
    /\ attempts # <<>>
    /\ attempts[1] = Resp("http", 503) )
  => /\ fpc = "done"
     /\ outcome = "HTTPError"
     /\ Len(attempts) = 1
     /\ retries = HTTPS_RETRIES

C7_Witness ==
  /\ budget = HTTPS_RETRIES
  /\ attempts = <<Resp("http", 503)>>
  /\ fpc = "done"
  /\ outcome = "HTTPError"

\* C8: fetch_url makes at most `budget` requests; a request that ends in a
\* transport error is retried (the call goes on, or ends RetriesExhausted
\* once the budget is used up); a call all of whose requests ended in
\* transport errors ends RetriesExhausted after `budget` requests.
C8_TransportErrorsRetried ==
  /\ Len(attempts) <= budget
  /\ ( attempts # <<>> /\ IsTransportError(attempts[Len(attempts)]) )
       => \/ fpc = "call"
          \/ outcome = "retries_exhausted"
  /\ ( fpc = "done" /\ url = "good"
       /\ \A i \in 1..Len(attempts) : IsTransportError(attempts[i]) )
       => /\ outcome = "retries_exhausted"
          /\ Len(attempts) = budget

-----------------------------------------------------------------------------
(* Claims about the FediServer construction (SpecDomain) *)

\* the argument without its one optional trailing dot
Body(cs) == IF cs # <<>> /\ cs[Len(cs)] = "." THEN SubSeq(cs, 1, Len(cs) - 1) ELSE cs

LabelChar(c) == c \in (DOMAIN_CHARS \ {"."})

\* the rules of the claim: labels of 1 to 63 letters, digits and hyphens,
\* no label starting or ending with a hyphen
FollowsRules(cs) ==
  LET b == Body(cs)
  IN  /\ b # <<>>
      /\ \A i \in 1..Len(b) : LabelChar(b[i]) \/ b[i] = "."
      /\ b[1] # "." /\ b[Len(b)] # "."
      /\ \A i \in 1..(Len(b) - 1) : ~(b[i] = "." /\ b[i + 1] = ".")
      /\ \A i \in 1..Len(b) :
           b[i] = "-" =>
             /\ i > 1 /\ b[i - 1] # "."
             /\ i < Len(b) /\ b[i + 1] # "."
      /\ \A i \in 1..Len(b) :
           \E j \in i..(i + MaxLabel) : j > Len(b) \/ b[j] = "."

\* C9: the construction succeeds for every argument that follows the rules
\* and stores it lowercased and without the trailing dot; for every other
\* argument (the empty string, a lone dot, an empty label, several trailing
\* dots) it raises ValueError and no other kind of error.
C9_ValidOrValueError ==
  dpc = "built" =>
    IF FollowsRules(raw)
    THEN server = Returned(Lower(Body(raw)))
    ELSE server = Raised("ValueError")

-----------------------------------------------------------------------------
(* Claims about merge_csv.py (SpecMerge) *)

\* C10: the merged registry holds the union of both domain sets, and for a
\* domain of both inputs its hit count is the sum of both hit counts and
\* its [first_seen, last_seen] interval covers both inputs' intervals.
C10_MergeCombines ==
  (mpc = "end" /\ outfile) =>
    /\ {written[i].domain : i \in 1..Len(written)} = DOMAIN parsed0 \cup DOMAIN f1
    /\ \A i \in 1..Len(written) :
         LET d == written[i].domain
         IN  (d \in DOMAIN parsed0 /\ d \in DOMAIN f1) =>
               /\ written[i].hits = parsed0[d].hits + f1[d].hits
               /\ written[i].first_seen <= parsed0[d].first_seen
               /\ written[i].first_seen <= f1[d].first_seen
               /\ written[i].last_seen >= parsed0[d].last_seen
               /\ written[i].last_seen >= f1[d].last_seen

-----------------------------------------------------------------------------
(* Claims about the executor and the outcomes of its probes (SpecExec) *)

\* C14: no outcome of a probe on one host aborts a batch: whatever way the
\* probes of a batch end (a missing ping binary included), perform_test,
\* perform_cat and perform_total are not left by an exception.
C14_NoProbeOutcomeAbortsBatch == epc # "raised"

\* the executor has collected the results of all probes
Collected == epc \in {"check", "done", "abort"}

PoolMode == thread_count >= MIN_THREADS

\* what the sequential loop returns for the per-host outcomes rs
SequentialValue(o, rs) ==
  CASE o = "test" -> KeepTruthy(MarkFailed([i \in 1..Len(rs) |-> PyObj(i)], rs))
    [] o = "cat" -> CatTally(rs)
    [] o = "total" -> PyInt(SumResults(rs, Len(rs)))

\* C19: in pool mode, in whatever order the workers complete, the result at
\* index i is what the probe returned for host i, so the executor returns what
\* the sequential loop returns for the same per-host outcomes.
C19_PoolKeepsHostOfResult ==
  /\ epc = "pool" =>
       \A i \in 1..Len(slots) : slots[i] \in {Pending, probed[i]}
  /\ (PoolMode /\ Collected) => results = probed
  /\ (PoolMode /\ epc = "done") => ret = SequentialValue(op, probed)

\* a pool-mode call that returned although a task completed before one of a
\* lower index, the two hosts having different outcomes
C19_Witness ==
  /\ PoolMode
  /\ epc = "done"
  /\ overtaken
  /\ probed[1] # probed[2]
  /\ results = probed

\* the list lengths the sizing is checked for: short lists and the lengths
\* around the one at which MAX_THREADS caps the pool
ListLengths ==
  0..(2 * MaxHosts) \cup ((2 * MAX_THREADS - 2)..(2 * MAX_THREADS + 3))

\* ceil(n / 2): the least k with 2 * k >= n
HalfRoundedUp(n) == CHOOSE k \in 0..n : 2 * k >= n /\ 2 * (k - 1) < n

\* C20: a list of fewer than 4 hosts is probed sequentially in input order,
\* a longer one by a pool of max(MIN_THREADS, min(MAX_THREADS, ceil(n/2)))
\* workers, which is between 2 and 1000; no host is probed twice, and when
\* the results are collected every host has been probed exactly once.
C20_ModeAndWorkers ==
  /\ epc = "call" =>
       \A n \in ListLengths :
         /\ Sequential(n) <=> n < 4
         /\ ThreadCount(n) = Max(2, Min(1000, HalfRoundedUp(n)))
         /\ ThreadCount(n) >= 2
         /\ ThreadCount(n) <= 1000
  /\ epc \notin {"call", "idle"} =>
       IF Len(instances) < 4
       THEN /\ thread_count = 0
            /\ started = 0
            /\ \A i \in 1..Len(instances) :
                 calls[i] = (IF i <= Len(results) \/ probed[i] = PyRaise THEN 1 ELSE 0)
       ELSE /\ thread_count = Max(2, Min(1000, HalfRoundedUp(Len(instances))))
            /\ Cardinality(running) <= thread_count
            /\ \A i \in 1..Len(instances) :
                 calls[i] = (IF i <= started THEN 1 ELSE 0)
  /\ Collected => \A i \in 1..Len(instances) : calls[i] = 1

\* a pool-mode call on 4 hosts that returned: 2 workers, every host probed once
C20_Witness ==
  /\ epc = "done"
  /\ Len(instances) = 4
  /\ thread_count = 2
  /\ \A i \in 1..4 : calls[i] = 1 /\ probed[i] # Pending


\* C24: with probes that return (a boolean from a test function) for every
\* host, under every interleaving of the workers, the executor collects as
\* many results as there are hosts, no None among those of a test, and
\* none of perform_test, perform_cat and perform_total takes the branch
\* that prints the fatal error and exits.
C24_AbortUnreachable ==
  /\ epc # "abort"
  /\ epc \in {"check", "done"} =>
       /\ Len(results) = Len(instances)
       /\ op = "test" =>
            \A i \in 1..Len(results) : results[i] \in {PyBool(TRUE), PyBool(FALSE)}

\* a pool run of perform_test over the longest list in which a worker
\* finished ahead of one that started earlier, past the check
C24_Witness ==
  /\ op = "test"
  /\ epc = "done"
  /\ thread_count > 0
  /\ overtaken
  /\ Len(instances) = MaxHosts
  /\ Len(results) = MaxHosts
  /\ \E i \in 1..Len(results) : results[i] = PyBool(FALSE)

\* C30: when perform_test has returned, the list object the caller passed
\* holds the same hosts at the same positions as before the call.
C30_CallerListUnchanged ==
  (op = "test" /\ epc = "done") =>
    instances = [i \in 1..Len(probed) |-> PyObj(i)]

-----------------------------------------------------------------------------
(* Claims about the FediServer object (SpecServer) *)

\* C18: a FediServer has first_seen <= last_seen in every state: once it is
\* constructed, whatever the arguments, and after every push_hit and combine.
C18_FirstSeenNotAfterLastSeen ==
  spc = "live" => host.first_seen <= host.last_seen

-----------------------------------------------------------------------------
(* Claims about the consolidated file (SpecRegistry) *)

Keys(dict) == {dict[i].k : i \in 1..Len(dict)}

\* C11: a registry of valid hosts that is written by write_consolidated and
\* read back by parse_consolidated comes back with the same domains and, for
\* each domain, the same hit count, first_seen and last_seen, also when a
\* timestamp or the hit count is 0.
C11_RoundTrip ==
  /\ origin = "written" => rpc # "raised"
  /\ (origin = "written" /\ rpc = "parsed") =>
       /\ Keys(parsed) = Keys(servers_dict)
       /\ \A d \in Keys(servers_dict) : Get(parsed, d) = Get(servers_dict, d)

\* a registry of two hosts inserted against the order of their domains, one
\* with a hit count of 0 and a last_seen of 0 before its first_seen, read back
C11_Witness ==
  /\ origin = "written"
  /\ rpc = "parsed"
  /\ Len(servers_dict) = 2
  /\ StrLess(servers_dict[2].k, servers_dict[1].k)
  /\ servers_dict[1].v.hits = 0
  /\ servers_dict[1].v.last_seen = 0
  /\ servers_dict[1].v.first_seen = 10 * MaxTime
  /\ Len(parsed) = 2

\* what the lines of a file stand for: the record of a well-formed line
Expected(kind) ==
  CASE kind = "a.b,1,2,3" -> Server(<<"a", ".", "b">>, Attrs(3, 1, 2))
    [] kind = "a.b,2,2,1" -> Server(<<"a", ".", "b">>, Attrs(1, 2, 2))
    [] kind = "b.c,0,0,0" -> Server(<<"b", ".", "c">>, Attrs(0, 0, 0))

WellFormedKinds == {"a.b,1,2,3", "a.b,2,2,1", "b.c,0,0,0"}
MalformedDomainKinds == {"a_b,1,2,3", ".,1,2,3"}
CommentKinds == {"#b.c,1,2,3", ""}

\* the first field of a line, stripped: the key its record is stored under
NamedDomain(kind) == Strip(Split(LineText(kind), ",")[1])

\* the file was read
WasRead == origin = "given" /\ rpc = "parsed" /\ lines # <<>>

\* C17: parse_consolidated is not left by the exception of a record with a
\* malformed domain: it prints an error for the record, stores nothing for
\* it, and returns the record of every well-formed line before and after it
\* (the last one of a domain); comment lines and empty lines give no record.
C17_MalformedDomainSkipped ==
  /\ rpc # "raised"
  /\ WasRead =>
       /\ \A i \in 1..Len(src) :
            /\ src[i] \in MalformedDomainKinds => printed[i] # "none"
            /\ src[i] \in WellFormedKinds =>
                 /\ printed[i] = "none"
                 /\ Expected(src[i]).domain \in Keys(parsed)
                 /\ (\A j \in (i + 1)..Len(src) :
                       NamedDomain(src[j]) # Expected(src[i]).domain)
                      => Get(parsed, Expected(src[i]).domain) = Expected(src[i])
       /\ Keys(parsed) \subseteq
            {NamedDomain(src[i]) :
               i \in {j \in 1..Len(src) :
                        src[j] \notin MalformedDomainKinds \cup CommentKinds}}

\* a file with a well-formed line before and after a line with a malformed
\* domain: both records are returned, one error is printed
C17_Witness ==
  /\ WasRead
  /\ src = <<"a.b,1,2,3", "a_b,1,2,3", "b.c,0,0,0">>
  /\ Keys(parsed) = {<<"a", ".", "b">>, <<"b", ".", "c">>}
  /\ printed = <<"none", "Error: Bad domain", "none", "none">>

\* the lines for which parse_consolidated printed an error
Reported == {i \in 1..Len(src) : printed[i] # "none"}

\* the lines that name the domain of line i
NamingDomainOf(i) == {j \in 1..Len(src) : NamedDomain(src[j]) = NamedDomain(src[i])}

\* C29: a line of the file that parse_consolidated reports as an error (bad
\* domain, a timestamp or a hit count that is no integer, fewer than four
\* fields) leaves no entry in the dict that is returned: the domain of a
\* line that was reported, and that no line without error names, is no key
\* of it; every entry has the hit count, first_seen and last_seen of a line
\* that was read without error.
C29_ReportedLineLeavesNoEntry ==
  WasRead =>
    /\ \A i \in Reported :
         NamingDomainOf(i) \subseteq Reported => NamedDomain(src[i]) \notin Keys(parsed)
    /\ \A d \in Keys(parsed) :
         \E i \in 1..Len(src) :
           /\ src[i] \in WellFormedKinds
           /\ printed[i] = "none"
           /\ Get(parsed, d) = Expected(src[i])

-----------------------------------------------------------------------------
(* Claims about the ping probes (SpecPing) *)

\* the address record of an IP version
RecordOf(v) == IF v = 4 THEN "A" ELSE "AAAA"

SubprocessStarted == \E i \in 1..Len(events) : events[i].e = "subprocess"

\* C16: test_ping4 returns False without running ping when the domain has no
\* A record, test_ping6 when it has no AAAA record; the subprocess is started
\* only after the query of the address record of the same IP version
\* succeeded.
C16_PingOnlyAfterAddressRecord ==
  /\ (ppc = "done" /\ resolves[RecordOf(ipver)] # "answer") =>
       pret = PyBool(FALSE) /\ ~SubprocessStarted
  /\ \A i \in 1..Len(events) :
       events[i].e = "subprocess" =>
         /\ events[i].flag = (IF ipver = 4 THEN "-4" ELSE "-6")
         /\ resolves[RecordOf(ipver)] = "answer"
         /\ \E j \in 1..(i - 1) :
              /\ events[j].e = "dns_query"
              /\ events[j].dtype = RecordOf(ipver)
              /\ events[j].ok

\* test_ping6 on a domain with an A record and no AAAA record has returned
\* False, and no subprocess was started
C16_Witness ==
  /\ ppc = "done"
  /\ ipver = 6
  /\ resolves["A"] = "answer"
  /\ resolves["AAAA"] = "NXDOMAIN"
  /\ binary
  /\ pret = PyBool(FALSE)
  /\ ~SubprocessStarted

-----------------------------------------------------------------------------
(* Claims about the script (SpecMain) *)

\* the order of the tests the usage text gives (lines 635-636)
StageOrder == <<"dns", "dnssec", "ping4", "ping6", "https", "ninfo", "ninfo2">>

StageIndex(flag) == CHOOSE i \in 1..Len(StageOrder) : StageOrder[i] = flag

\* the tests that were executed
Executed == {trace[i].stage : i \in 1..Len(trace)}

\* the script has left the pipeline without an exit and without an exception
PastPipeline == pc \in {"output", "end"} \/ (pc = "exit" /\ error = "Error: Output file not writable")

InPipeline == pc \in Range(StageOrder)

\* the host passed every executed test
PassedAll(h) == \A i \in 1..Len(trace) : \E j \in 1..Len(trace[i].kept) : trace[i].kept[j] = h

\* C12: the tests run in the order dns-resolve, dnssec, ping-ipv4, ping-ipv6,
\* https, node-info, node-info2; each executed test is handed the hosts the
\* previous executed test kept; a test that was not asked for (by its option
\* or by --all-tests) is not executed and leaves the list as it is, one that
\* was asked for is executed; the final list holds the input hosts that
\* passed every executed test, in input order.
C12_StagesInOrder ==
  /\ \A i \in 1..Len(trace) : \A j \in 1..Len(trace) :
       i < j => StageIndex(trace[i].stage) < StageIndex(trace[j].stage)
  /\ \A i \in 1..Len(trace) :
       trace[i].given = (IF i = 1 THEN initial ELSE trace[i - 1].kept)
  /\ \A i \in 1..Len(trace) : args[trace[i].stage] \/ args.all
  /\ (InPipeline \/ PastPipeline) =>
       /\ hosts = (IF trace = <<>> THEN initial ELSE trace[Len(trace)].kept)
       /\ \A i \in 1..Len(StageOrder) :
            LET flag == StageOrder[i]
            IN  (((args[flag] \/ args.all) /\ (flag = "ping6" => ipv6_support # PyBool(FALSE))
                  /\ (PastPipeline \/ StageIndex(pc) > i))
                 => flag \in Executed)
  /\ PastPipeline => hosts = SelectSeq(initial, PassedAll)

\* a run with --dns-resolve and --https alone on the two hosts of an input
\* file: the first host failed the first test, the second one passed both
C12_Witness ==
  /\ pc = "end"
  /\ ~args.all
  /\ Len(initial) = 2
  /\ Len(trace) = 2
  /\ trace[1].stage = "dns"
  /\ trace[1].kept = <<initial[2]>>
  /\ trace[2].stage = "https"
  /\ trace[2].given = <<initial[2]>>
  /\ hosts = <<initial[2]>>
  /\ output.kind = "print"

S_NoLocalIPv6 == "Error: Local host does not support IPv6, and --ping-ipv6 requested"

\* C13: without local IPv6, a run with --ping-ipv6 ends with the NoLocalIPv6
\* error and no result output; a run in which ping-ipv6 is only implied by
\* --all-tests skips the test, leaves the list as ping-ipv4 left it, and
\* still runs https, node-info and node-info2.  With local IPv6 the
\* ping-ipv6 test is executed in both cases.
C13_Ipv6Gate ==
  /\ ((args.ping6 \/ args.all) /\ (PastPipeline \/ pc \in {"https", "ninfo", "ninfo2"}))
       => ipv6_support # PyNone
  /\ (ipv6_support = PyBool(FALSE) /\ args.ping6) =>
       /\ pc = "exit"
       /\ error = S_NoLocalIPv6
       /\ output.kind = "none"
       /\ "ping6" \notin Executed
  /\ (ipv6_support = PyBool(FALSE) /\ ~args.ping6) =>
       /\ args.all
       /\ error # S_NoLocalIPv6
       /\ "ping6" \notin Executed
       /\ pc = "https" =>
            /\ trace # <<>>
            /\ trace[Len(trace)].stage = "ping4"
            /\ hosts = trace[Len(trace)].kept
       /\ PastPipeline => {"https", "ninfo", "ninfo2"} \subseteq Executed
  /\ ipv6_support = PyBool(TRUE) =>
       /\ args.ping6 \/ args.all
       /\ "ping6" \in Executed

\* a run with --all-tests alone on a host without IPv6: ping-ipv6 is the only
\* test that was skipped, and the result was printed
C13_Witness ==
  /\ pc = "end"
  /\ args.all
  /\ ~args.ping6
  /\ ipv6_support = PyBool(FALSE)
  /\ Executed = {"dns", "dnssec", "ping4", "https", "ninfo", "ninfo2"}
  /\ hosts # <<>>
  /\ output.kind = "print"

\* the messages of the fatal configuration errors
ConfigErrors ==
  {"No input specified", "No tests requested, exiting", "min-hits requires input-file",
   "Error: No instances for testing", "Error: Output file not writable"}

\* C15: every fatal configuration error (no input, no test asked for,
\* --min-hits with INSTANCE, no host to test, output file not writable) ends
\* the run before any test is executed and before any output.
C15_ConfigErrorsBeforeProbes ==
  /\ error \in ConfigErrors => trace = <<>> /\ output.kind = "none"
  /\ (Truthy(args.instance) /\ args.minhits # PyNone) => trace = <<>>

-----------------------------------------------------------------------------
(* Claims about test_https (SpecHttps) *)

\* an HTTP error with a client-error status
Is4xx(r) == r.kind = "http" /\ r.code \in 400..499

\* C21: test_https requests the paths of COMMON_URLS['https'] in list
\* order; every request but the last one made ended in a 4xx status, so a
\* 4xx never ends the probe and anything else ends it at once; the probe
\* returns true when the last request succeeded or all paths gave a 4xx,
\* and false when the last request ended in any other error.
C21_HttpsShortCircuit ==
  /\ Len(fetched) <= Len(COMMON_URLS_https)
  /\ \A i \in 1..Len(fetched) : fetched[i].rel = COMMON_URLS_https[i]
  /\ \A i \in 1..(Len(fetched) - 1) : Is4xx(fetched[i].r)
  /\ hpc = "loop" => \A i \in 1..Len(fetched) : Is4xx(fetched[i].r)
  /\ hpc = "done" =>
       /\ hret \in {PyBool(TRUE), PyBool(FALSE)}
       /\ Len(fetched) > 0
       /\ LET last == fetched[Len(fetched)].r IN
            /\ last.kind = "ok" => hret = PyBool(TRUE)
            /\ Is4xx(last) =>
                 /\ Len(fetched) = Len(COMMON_URLS_https)
                 /\ hret = PyBool(TRUE)
            /\ (last.kind # "ok" /\ ~Is4xx(last)) => hret = PyBool(FALSE)

\* a probe that got a client error from every path and returned true
C21_Witness ==
  /\ hpc = "done"
  /\ Len(fetched) = Len(COMMON_URLS_https)
  /\ \A i \in 1..Len(fetched) : Is4xx(fetched[i].r)
  /\ hret = PyBool(TRUE)

-----------------------------------------------------------------------------
(* Claims about fetch_nodeinfo_attr (SpecNinfo) *)

\* the last entry of `links` when the root document is an object whose
\* `links` is a non-empty list ending in an object with `href`; else absent
LastLink(root) ==
  IF root.t = "object" /\ HasKey(root.d, S_links)
     /\ Get(root.d, S_links).t = "array"
     /\ Get(root.d, S_links).items # <<>>
  THEN LET links == Get(root.d, S_links).items
           last == links[Len(links)]
       IN  IF last.t = "object" /\ HasKey(last.d, S_href) THEN last ELSE PyNone
  ELSE PyNone

\* the leaf a key path leads to: a string key needs an object that has it,
\* an integer index a list and a position in it; else absent
RECURSIVE Leaf(_, _)
Leaf(node, keys) ==
  IF keys = <<>> THEN node
  ELSE LET key == Head(keys) IN
       IF key.t = "str"
       THEN IF node.t = "object" /\ HasKey(node.d, key.s)
            THEN Leaf(Get(node.d, key.s), Tail(keys))
            ELSE PyNone
       ELSE IF node.t = "array" /\ key.n >= 0 /\ key.n < Len(node.items)
            THEN Leaf(node.items[key.n + 1], Tail(keys))
            ELSE PyNone

\* C22: fetch_nodeinfo_attr never raises.  It returns None when a fetch
\* fails, a body is not JSON, the root document has no last link with
\* href, or the key path meets a missing key, an index out of range or
\* negative, or a node of the wrong type; else it returns the leaf of the
\* document of the last link.
C22_AbsentOrLeafNeverRaises ==
  npc = "done" =>
    /\ nret.t # "raise"
    /\ nret =
         IF schemas.kind # "json" \/ nodeinfo.kind # "json" THEN PyNone
         ELSE IF LastLink(schemas.value) = PyNone THEN PyNone
         ELSE IF Get(LastLink(schemas.value).d, S_href).t # "str" THEN PyNone
         ELSE Leaf(nodeinfo.value, attr)

-----------------------------------------------------------------------------
(* Claims about test_url (SpecUrl) *)

\* a response that declares a content type with `json` in it
DeclaresJson(r) ==
  r.kind = "ok" /\ r.header.t = "str" /\ Contains(r.header.s, S_json)

\* C23: with the required content type 'json', test_url makes at most
\* HTTPS_RETRIES requests and goes on to another request only after a
\* transport error (URLError), never after an HTTP error status; it
\* returns true iff its last request got a response that declares a
\* content type containing 'json', and false when every request of the
\* budget ended in a transport error.
C23_UrlContentType ==
  content_type = PyStr(S_json) =>
    /\ Len(requests) <= HTTPS_RETRIES
    /\ \A i \in 1..(Len(requests) - 1) : IsTransportError(requests[i])
    /\ \A i \in 1..(Len(requests) - 1) : requests[i].kind # "http"
    /\ upc = "call" => \A i \in 1..Len(requests) : IsTransportError(requests[i])
    /\ upc = "done" =>
         /\ Len(requests) > 0
         /\ uret = PyBool(DeclaresJson(requests[Len(requests)]))
         /\ (/\ Len(requests) = HTTPS_RETRIES
             /\ \A i \in 1..Len(requests) : IsTransportError(requests[i]))
              => uret = PyBool(FALSE)

\* two transport errors, then a response declared as JSON: true after
\* three requests
C23_Witness ==
  /\ content_type = PyStr(S_json)
  /\ upc = "done"
  /\ Len(requests) = HTTPS_RETRIES
  /\ IsTransportError(requests[1])
  /\ IsTransportError(requests[2])
  /\ DeclaresJson(requests[3])
  /\ uret = PyBool(TRUE)

-----------------------------------------------------------------------------
(* Claims about consecutive stages (SpecStages) *)

\* a test is called on a host in this step
ProbeStarts == begun' > begun

\* every result of the call under way is there
AllResults ==
  /\ w_running = {}
  /\ Len(w_results) = Len(work)
  /\ \A i \in 1..Len(w_results) : w_results[i] \in TestValues

\* C25: the list of a stage is not modified while a worker of the stage
\* runs a test; it is modified only once every result of the stage is
\* there; a test of a later stage starts only when every earlier stage has
\* returned its filtered list and on the hosts of that list; and no step
\* changes the domain, hit count or timestamps of a host.
C25_NoMutationMidStage ==
  /\ [](wpc \in {"check", "end", "call", "seq"} => w_running = {})
  /\ [][/\ w_running # {} => work' = work
        /\ work' # work => AllResults
        /\ ProbeStarts =>
             /\ Len(returned) = stage - 1
             /\ \A i \in 1..Len(work) : work[i] # PyNone
             /\ stage > 1 => work = returned[stage - 1]
        /\ heap' = heap]_vars

\* the first stage ran in a pool and dropped a host, and a test of the
\* second stage has been called on a host that was kept
C25_Witness ==
  /\ stage = 2
  /\ Len(heap) = MaxHosts
  /\ Len(returned) = 1
  /\ Len(returned[1]) < Len(heap)
  /\ work = returned[1]
  /\ begun > 0

-----------------------------------------------------------------------------
(* Claims about process_skarf.py with one input file (SpecSkarf) *)

S_ab == <<"a", ".", "b">>
S_cd == <<"c", ".", "d">>
S_ef == <<"e", ".", "f">>

Seen(h, ts) == [host |-> h, ts |-> ts]

\* the observations a line of each kind holds: the hostnames of its URLs
\* with the timestamp in its first field
Observations(kind) ==
  CASE kind = "seen5" -> <<Seen(S_ab, 5)>>
    [] kind = "seen2" -> <<Seen(S_ab, 2)>>
    [] kind = "two_hosts" -> <<Seen(S_cd, 0), Seen(S_ab, 0), Seen(S_ab, 0)>>
    [] kind = "negative" -> <<Seen(S_cd, 0 - 5)>>
    [] kind = "padded" -> <<Seen(S_ab, 9)>>
    [] kind = "bad_url" -> <<Seen(S_cd, 4)>>
    [] OTHER -> <<>>

\* the observations of the first n lines of the input file
RECURSIVE ObservedIn(_)
ObservedIn(n) ==
  IF n = 0 THEN <<>> ELSE ObservedIn(n - 1) \o Observations(obs_kinds[n])

\* the timestamps at which h was observed, one entry per observation
StampsOf(h, seen) == SelectSeq(seen, LAMBDA o : o.host = h)

\* C27: after any number of lines of the input file, parse_input holds an
\* entry for exactly the hostnames observed so far; its hits is the number
\* of their observations, its first_seen the least and its last_seen the
\* greatest of their timestamps.  A line whose first field is no integer
\* adds nothing.
C27_ParseInputCounts ==
  kpc # "idle" =>
    \A h \in {S_ab, S_cd, S_ef} :
      LET mine == StampsOf(h, ObservedIn(obs_n)) IN
      IF mine = <<>> THEN ~HasKey(fedi_servers, h)
      ELSE /\ HasKey(fedi_servers, h)
           /\ Get(fedi_servers, h).domain = h
           /\ Get(fedi_servers, h).hits = Len(mine)
           /\ \A i \in 1..Len(mine) :
                /\ Get(fedi_servers, h).first_seen <= mine[i].ts
                /\ Get(fedi_servers, h).last_seen >= mine[i].ts
           /\ \E i \in 1..Len(mine) : Get(fedi_servers, h).first_seen = mine[i].ts
           /\ \E i \in 1..Len(mine) : Get(fedi_servers, h).last_seen = mine[i].ts

\* a.b was observed at 0 twice and then at 5, or the other way round, next
\* to a line without an integer timestamp or none
C27_Witness ==
  /\ obs_n = 2
  /\ HasKey(fedi_servers, S_ab)
  /\ Get(fedi_servers, S_ab).hits = 3
  /\ Get(fedi_servers, S_ab).first_seen = 0
  /\ Get(fedi_servers, S_ab).last_seen = 5

\* C26: the registry written to the consolidated file holds the domains
\* of the file and of the new observations; a domain of both has the sum
\* of the hits, the lesser first_seen and the greater last_seen; a domain
\* of the new observations alone has their hits and timestamps; a domain
\* of the file alone is as it was.
C26_UpdateMerges ==
  kpc = "written" =>
    /\ Keys(file_servers) = Keys(file0) \cup Keys(fedi_servers)
    /\ \A h \in Keys(file_servers) :
         LET out == Get(file_servers, h) IN
         /\ out.domain = h
         /\ (HasKey(file0, h) /\ HasKey(fedi_servers, h)) =>
              /\ out.hits = Get(file0, h).hits + Get(fedi_servers, h).hits
              /\ out.first_seen =
                   Min(Get(file0, h).first_seen, Get(fedi_servers, h).first_seen)
              /\ out.last_seen =
                   Max(Get(file0, h).last_seen, Get(fedi_servers, h).last_seen)
         /\ (~HasKey(file0, h)) => out = Get(fedi_servers, h)
         /\ (~HasKey(fedi_servers, h)) => out = Get(file0, h)

(* Claims about the two-file mode of process_skarf.py (SpecDiff) *)

\* the lines the diff of the two files consists of
OnlyFirst == {<<">", " ">> \o d : d \in Range(domains_1) \ Range(domains_2)}
OnlySecond == {<<"<", " ">> \o d : d \in Range(domains_2) \ Range(domains_1)}

\* C28: the two-file mode ends without an exception, and when it has ended
\* it has printed every domain of the first file alone once behind "> ",
\* every domain of the second file alone once behind "< ", and nothing else
C28_DiffPrintsDifference ==
  /\ dfpc # "raised"
  /\ dfpc = "done" =>
       /\ Range(diff_out) = OnlyFirst \cup OnlySecond
       /\ Len(diff_out) = Cardinality(OnlyFirst \cup OnlySecond)

=============================================================================
